---- MODULE Spec2Model ----
(***************************************************************************)
(* A model of three components of sqlite_flux:                             *)
(*   - ConnectionPool (src/ConnectionPool.cpp, include/ConnectionPool.h):  *)
(*     the pool of pre-opened Analyzer handles, the RAII Connection guard  *)
(*     and the threads that borrow from the pool (Spec, FairSpec,          *)
(*     MoveSpec, ShutSpec);                                                *)
(*   - Analyzer (src/Analyzer.cpp): one database handle behind dbMutex_    *)
(*     and its schema cache behind schemaMutex_ (AnSpec, SeqSpec);         *)
(*   - ThreadPool (src/AsyncExecutor.cpp, include/AsyncExecutor.h): the    *)
(*     task queue, its workers and its destructor (WpSpec).                *)
(* Each specification moves one component and leaves the others in their   *)
(* initial state.                                                          *)
(*                                                                         *)
(* Granularity.  Every access to state another thread can see without the  *)
(* pool's mutex (the atomics shutdown_ and outstandingConnections_, the    *)
(* mutex itself, the condition variable) is a step of its own; accesses to *)
(* pool_ made while the mutex is held are joined to the neighbouring step. *)
(* size_t values are modelled as mathematical integers: a value below 0    *)
(* stands for an underflow of the unsigned counter.                        *)
(***************************************************************************)
EXTENDS Integers, Sequences, FiniteSets, TLC

\* ------------------------------------------------------------------ bounds
\* Number of threads using the pool.
NumThreads == 3
\* Largest poolSize argument the constructor is given (0..PoolSize are tried).
PoolSize == 2
\* Number of Connection objects (guards) the moving thread of MoveSpec has in scope
\* at once; MoveSpec's pool has as many Resources.
NumSlots == 2

Threads == 1..NumThreads
Resources == 1..(IF PoolSize > NumSlots THEN PoolSize ELSE NumSlots)
Slots == 1..NumSlots

\* A null std::unique_ptr<Analyzer>.
NULL == 0
\* mutex_ not owned.
Free == 0

VARIABLES
    poolState,                  \* "new" | "loop" | "ready" | "failed": position of the constructor
    poolSize_,                  \* ConnectionPool::poolSize_
    totalConnections_,          \* ConnectionPool::totalConnections_
    pool_,                      \* ConnectionPool::pool_, the idle queue (front first)
    outstandingConnections_,    \* ConnectionPool::outstandingConnections_
    shutdown_,                  \* ConnectionPool::shutdown_
    mutex_,                     \* owner of ConnectionPool::mutex_, or Free
    cv_,                        \* threads blocked on ConnectionPool::cv_
    handles,                    \* the Analyzers of this pool whose native handle is open (Impl::db # nullptr)
    dtor,                       \* position of ~ConnectionPool: "none" | "flagged" | "notified" | "checked"
    dtorSaw,                    \* the local `outstanding` of ~ConnectionPool (-1 before the load)
    pc,                         \* per thread: position inside acquire/tryAcquire/release
    call,                       \* per thread: "none" | "acquire" | "try": the call in progress
    timeout,                    \* per thread: tryAcquire's timeout argument (0 = 0 ms, 1 = positive)
    timedOut,                   \* per thread: the pending wake-up is cv_status::timeout
    available,                  \* per thread: tryAcquire's local `available`
    conn,                       \* per thread: the local/parameter `conn` of acquire/tryAcquire/release
    dst,                        \* per thread: the guard being initialised by the call in progress
    relCtx,                     \* per thread: who called release(): destructor (with exit path) or operator=
    guards,                     \* per thread and slot: a Connection object
    startedShut,                \* history: shutdown_ was set when the call in progress began
    debt,                       \* history, per Resource: pops by acquire/tryAcquire minus pushes by release
    event                       \* history: what the step just taken completed: a return of
                                \* acquire/tryAcquire, the end of a ~Connection, or nothing

poolVars == <<poolState, poolSize_, totalConnections_, pool_, outstandingConnections_,
              shutdown_, mutex_, cv_, dtor, dtorSaw, handles>>
threadVars == <<pc, call, timeout, timedOut, available, conn, dst, relCtx, guards>>
histVars == <<startedShut, debt, event>>
poolSide == <<poolVars, threadVars, histVars>>

\* Nothing the histories record happened in the step just taken.
NoEvent == [type |-> "none"]

\* ------------------------------------------------------------------ Analyzer: state
\* Number of threads that call every operation of one Analyzer concurrently; one
\* more thread, StmtThread, only runs statements and the other native calls on it.
NumCallers == 2
\* Number of tables in the database.
NumTables == 2
\* Number of distinct definitions a table can be given by DDL statements.
NumDefs == 2

Callers == 1..NumCallers
StmtThread == NumCallers + 1
AnThreads == Callers \cup {StmtThread}
Tables == 1..NumTables
Defs == 1..NumDefs

\* schemaCache.find(t) == schemaCache.end().
Absent == -1
\* A default-constructed TableSchema (no columns).
EmptySchema == 0

VARIABLES
    db,                         \* Impl::db != nullptr
    dbTables,                   \* the database itself: per table its current definition
    dbMutex_,                   \* owner of Impl::dbMutex_, or Free
    schemaMutex_,               \* Impl::schemaMutex_: [w |-> exclusive owner or Free, r |-> shared owners]
    schemaCache,                \* Impl::schemaCache: per table the cached TableSchema, or Absent
    isCacheInitialized,         \* Impl::isCacheInitialized
    an,                         \* per caller: [pc, kind, tab, i], its position inside a call
    anEvent,                    \* history: what the step just taken returned
    callsLeft                   \* environment: the calls the threads will still begin,
                                \* [bounded, n], or Unlimited

anVars == <<db, dbTables, dbMutex_, schemaMutex_, schemaCache, isCacheInitialized, an, anEvent,
            callsLeft>>

\* The threads go on calling for ever.
Unlimited == [bounded |-> FALSE]

\* The threads begin n more calls and then no other.
Limited(n) == [bounded |-> TRUE, n |-> n]

\* A caller that is in no call.
AnIdle == [pc |-> "idle", kind |-> "none", tab |-> 0, i |-> 0]

\* An Analyzer after Analyzer::Analyzer(dbPath) has opened the database
\* (Analyzer.cpp:14-26, 62-66): empty cache, flag false.
AnInit ==
    /\ db = TRUE
    /\ dbTables = [tab \in Tables |-> 1]
    /\ dbMutex_ = Free
    /\ schemaMutex_ = [w |-> Free, r |-> {}]
    /\ schemaCache = [tab \in Tables |-> Absent]
    /\ isCacheInitialized = FALSE
    /\ an = [t \in AnThreads |-> AnIdle]
    /\ anEvent = NoEvent

\* ------------------------------------------------------------------ ThreadPool: state
\* Number of worker threads (the constructor's numThreads).
NumWorkers == 2
\* Number of enqueue() calls made on the pool, each by a thread of its own.
NumTasks == 2

Workers == 1..NumWorkers
Tasks == 1..NumTasks
\* The thread that calls enqueue for task k, as an owner of queueMutex_.
Enqueuer(k) == NumWorkers + k

VARIABLES
    tasks_,                     \* ThreadPool::tasks_, the task queue (front first)
    queueMutex_,                \* owner of ThreadPool::queueMutex_, or Free
    condition_,                 \* workers blocked on ThreadPool::condition_
    stop_,                      \* ThreadPool::stop_
    wk,                         \* per worker: [pc, task], its position in workerThread
                                \* (pc "absent": no such element of workers_)
    enq,                        \* per task: position of its enqueue() call
    done,                       \* per task: how many times its closure has been run to its end
    tpDtor,                     \* life of the ThreadPool: "unbuilt" | "failed" (constructor threw) |
                                \* "none" (in use) | "flagged" | "joining" | "done" (~ThreadPool)
    joinIdx,                    \* the element of workers_ the destructor's loop is at
    begunStopped,               \* history, per task: stop_ was set when its enqueue() began
    appended                    \* history: the tasks enqueue() has appended and no worker has
                                \* run to their end yet, in the order of the appends

wpVars == <<tasks_, queueMutex_, condition_, stop_, wk, enq, done, tpDtor, joinIdx,
            begunStopped, appended>>

\* A ThreadPool before its constructor runs: the members' initializers
\* (AsyncExecutor.h:259-264): no worker thread, an empty queue, stop_ false.
WpInit ==
    /\ tasks_ = <<>>
    /\ queueMutex_ = Free
    /\ condition_ = {}
    /\ stop_ = FALSE
    /\ wk = [w \in Workers |-> [pc |-> "absent", task |-> 0]]
    /\ enq = [k \in Tasks |-> "new"]
    /\ done = [k \in Tasks |-> 0]
    /\ tpDtor = "unbuilt"
    /\ joinIdx = 1
    /\ begunStopped = [k \in Tasks |-> FALSE]
    /\ appended = <<>>

\* ------------------------------------------------------------------ DeleteBuilder, UpdateBuilder: state
\* Number of rows of the table the builders work on.
NumRows == 2
\* Largest number of Where() conditions given to one builder.
NumWheres == 2

Rows == 1..NumRows
\* The values of the one column the conditions and the updates are about.
Vals == {0, 1}

VARIABLES
    qb,                         \* the builder object: [kind, filters_, updates_, allowUnsafe_], or NoBuilder
    qbTable,                    \* the table in the database: a set of rows <<id, value>>
    qbEvent                     \* history: what the step just taken did, if it was an Execute()

qbVars == <<qb, qbTable, qbEvent>>

\* No builder has been constructed.
NoBuilder == [kind |-> "none", filters_ |-> <<>>, updates_ |-> {}, allowUnsafe_ |-> FALSE]

\* The table before any builder is used: every row holds 1.
QbInit ==
    /\ qb = NoBuilder
    /\ qbTable = {<<r, 1>> : r \in Rows}
    /\ qbEvent = NoEvent

\* ------------------------------------------------------------------ AsyncExecutor, Task<T>: state
\* What an operation of a Resource returns: a value equal to a default-constructed
\* T (an empty ResultSet, false, 0) or another one.
OpValues == {"default", "other"}

VARIABLES
    opRes,                      \* per task: what the Resource operation did on the worker,
                                \* as the shared state of the task's future holds it: "none"
                                \* (not run yet, or moved out by future.get()), a value of
                                \* OpValues, or "threw"
    promise,                    \* per task: Task<T>::promise_type of the verb's coroutine:
                                \* [value_, exception_, done (suspended at final_suspend)]
    opConn                      \* history, per task: the Resource its operation ran on

aeVars == <<opRes, promise, opConn>>

\* A promise_type as the coroutine frame default-initializes it (AsyncExecutor.h:28-31):
\* value_ has no initializer, exception_ is null.
NewPromise == [value_ |-> "uninit", exception_ |-> FALSE, done |-> FALSE]

\* No verb of the AsyncExecutor has been called.
AeInit ==
    /\ opRes = [k \in Tasks |-> "none"]
    /\ promise = [k \in Tasks |-> NewPromise]
    /\ opConn = [k \in Tasks |-> NULL]

\* ------------------------------------------------------------------ Analyzer::Impl: state
\* What lastError can hold: nothing, or the message of a failed sqlite3_open, WAL
\* pragma, sqlite3_exec or sqlite3_prepare_v2.
ErrorTexts == {"", "open", "wal", "exec", "prepare"}

VARIABLES
    impl,                       \* one Analyzer::Impl used by one thread: [db (non-null),
                                \* walModeEnabled, lastError, journalWal (the handle db
                                \* points to has been put into write-ahead mode)]
    implEvent                   \* history: the call that has just returned

implVars == <<impl, implEvent>>

\* An Analyzer after Analyzer::Analyzer(dbPath) (Analyzer.cpp:62-66) whose open() has
\* opened the database and enabled write-ahead mode (lines 91-97).
ImplInit ==
    /\ impl = [db |-> TRUE, walModeEnabled |-> TRUE, lastError |-> "", journalWal |-> TRUE]
    /\ implEvent = NoEvent

\* The variables of the library's other components, which the pool's operations
\* leave alone.
otherVars == <<anVars, wpVars, qbVars, aeVars, implVars>>
OtherInit == AnInit /\ WpInit /\ QbInit /\ AeInit /\ ImplInit
notAnCalls == <<poolSide, wpVars, qbVars, aeVars, implVars>>
notAnVars == <<notAnCalls, callsLeft>>
notWpVars == <<poolSide, anVars, qbVars, aeVars, implVars>>
notQbVars == <<poolSide, anVars, wpVars, aeVars, implVars>>
notAeVars == <<poolSide, anVars, wpVars, qbVars, implVars>>
notImplVars == <<poolSide, anVars, wpVars, qbVars, aeVars>>
vars == <<poolVars, threadVars, histVars, otherVars>>

\* ------------------------------------------------------------------ Connection (the guard)
\* A Connection that is not constructed (out of scope).
DeadGuard == [live |-> FALSE, pool_ |-> FALSE, conn_ |-> NULL]

\* Connection::Connection(ConnectionPool*, std::unique_ptr<Analyzer>)
NewGuard(r) == [live |-> TRUE, pool_ |-> TRUE, conn_ |-> r]

\* Mutant of NeedsRelease: the guard never gives its Resource back.
NeedsReleaseNever(g) == FALSE

\* The test `conn_ && pool_` of ~Connection and operator=.
NeedsRelease(g) == g.live /\ g.conn_ # NULL /\ g.pool_

\* Mutant of MoveCtor: `other` is copied and left as it was.
MoveCtorCopies(other) ==
    << [live |-> TRUE, pool_ |-> other.pool_, conn_ |-> other.conn_], other >>

\* Connection::Connection(Connection&& other): the pair <<new object, other afterwards>>.
MoveCtor(other) ==
    << [live |-> TRUE, pool_ |-> other.pool_, conn_ |-> other.conn_],
       [live |-> TRUE, pool_ |-> FALSE, conn_ |-> NULL] >>

\* Lines 42-44 of operator=(Connection&& other): the pair <<*this, other>> afterwards.
MoveAdopt(this, other) ==
    << [live |-> TRUE, pool_ |-> other.pool_, conn_ |-> other.conn_],
       [live |-> TRUE, pool_ |-> FALSE, conn_ |-> NULL] >>

\* Mutant of MovedOut: the guard keeps its pointer, as a raw-pointer copy would.
MovedOutKeeps(g) == g

\* std::move(conn_) into release()'s parameter: the guard afterwards.
MovedOut(g) == [g EXCEPT !.conn_ = NULL]

\* ------------------------------------------------------------------ statistics
\* ConnectionPool::size
size == totalConnections_
\* ConnectionPool::available
availableCount == Len(pool_)
\* ConnectionPool::inUse
inUse == totalConnections_ - Len(pool_)
\* ConnectionPool::outstandingConnections
outstandingConnections == outstandingConnections_

\* ------------------------------------------------------------------ Init
\* The record of a return of thread t's acquire/tryAcquire with result res.
Returned(t, res) ==
    [type |-> "return", thread |-> t, kind |-> call[t], res |-> res,
     startedShut |-> startedShut[t], timeout |-> timeout[t]]

\* The record of a move of thread t's guard s into its guard d, by move construction
\* or move assignment; old is the Resource d released before it adopted.
Moved(t, how, d, s, old) ==
    [type |-> "moved", how |-> how, thread |-> t, dst |-> d, src |-> s,
     res |-> guards[t][s].conn_, old |-> old]

\* Nothing the histories record happens in this step.
Quiet == event' = NoEvent /\ UNCHANGED <<startedShut, debt>>

Constructing(calls) ==
    /\ poolState = "new"
    /\ poolSize_ \in 0..PoolSize
    /\ totalConnections_ = 0
    /\ pool_ = <<>>
    /\ outstandingConnections_ = 0
    /\ shutdown_ = FALSE
    /\ mutex_ = Free
    /\ cv_ = {}
    /\ handles = {}
    /\ dtor = "none"
    /\ dtorSaw = -1
    /\ pc = [t \in Threads |-> "idle"]
    /\ call = [t \in Threads |-> "none"]
    /\ timeout = [t \in Threads |-> 0]
    /\ timedOut = [t \in Threads |-> FALSE]
    /\ available = [t \in Threads |-> FALSE]
    /\ conn = [t \in Threads |-> NULL]
    /\ dst = [t \in Threads |-> 0]
    /\ relCtx = [t \in Threads |-> <<"none", 0, 0>>]
    /\ guards = [t \in Threads |-> [s \in Slots |-> DeadGuard]]
    /\ startedShut = [t \in Threads |-> FALSE]
    /\ debt = [r \in Resources |-> 0]
    /\ event = NoEvent
    /\ OtherInit
    /\ callsLeft = calls

\* Nothing bounds the calls the threads make.
Init == Constructing(Unlimited)

\* ------------------------------------------------------------------ constructor
\* Mutant of CtorMore: the loop stops one iteration early.
CtorMoreShort(i) == i + 1 < poolSize_

\* The loop condition of line 69, i < poolSize_.
CtorMore(i) == i < poolSize_

\* ConnectionPool::ConnectionPool, lines 63-66: the size check.
CtorCheck ==
    /\ poolState = "new"
    /\ poolState' = IF poolSize_ = 0 THEN "failed" ELSE "loop"
    /\ UNCHANGED <<poolSize_, totalConnections_, pool_, outstandingConnections_,
                   shutdown_, mutex_, cv_, dtor, dtorSaw>>
    /\ UNCHANGED threadVars
    /\ Quiet
    /\ UNCHANGED <<handles, otherVars>>

\* Analyzer::Analyzer -> Analyzer::open (Analyzer.cpp:62-107) on the new Analyzer h:
\* the open handles afterwards. sqlite3_open yields a handle even when it fails; the
\* failure path closes it and resets db to nullptr (lines 80-86).
AnalyzerOpen(h, ok, hs) == IF ok THEN hs \cup {h} ELSE (hs \cup {h}) \ {h}

\* Analyzer::isOpen (Analyzer.cpp:120-124): db != nullptr.
IsOpen(h, hs) == h \in hs

\* Mutant of ImplDtor: the destructor leaves the native handle open.
ImplDtorLeaks(h, hs) == hs

\* Analyzer::Impl::~Impl (Analyzer.cpp:28-34), run by ~Analyzer when a
\* std::unique_ptr<Analyzer> is destroyed: `if (db) sqlite3_close(db)`.
ImplDtor(h, hs) == IF h \in hs THEN hs \ {h} ELSE hs

\* The destruction of the member pool_ (a queue of unique_ptr<Analyzer>) when the
\* constructor is left by a throw: every element's Analyzer is destroyed.
RECURSIVE DestroyQueue(_, _)
DestroyQueue(q, hs) ==
    IF q = <<>> THEN hs ELSE DestroyQueue(Tail(q), ImplDtor(Head(q), hs))

\* One iteration of the loop of lines 69-89; opened = the result of the new
\* Analyzer's sqlite3_open. On `!conn->isOpen()` the constructor throws: the local
\* conn is destroyed, then the members already constructed, pool_ with them.
CtorIter(opened) ==
    /\ poolState = "loop"
    /\ CtorMore(totalConnections_)
    /\ LET h == totalConnections_ + 1
           hs == AnalyzerOpen(h, opened, handles) IN
        IF IsOpen(h, hs)
         THEN /\ pool_' = Append(pool_, h)
              /\ handles' = hs
              /\ totalConnections_' = totalConnections_ + 1
              /\ poolState' = IF CtorMore(totalConnections_ + 1) THEN "loop" ELSE "ready"
              /\ event' = IF CtorMore(totalConnections_ + 1) THEN NoEvent
                                                             ELSE [type |-> "constructed"]
         ELSE /\ pool_' = <<>>
              /\ handles' = DestroyQueue(pool_, ImplDtor(h, hs))
              /\ totalConnections_' = totalConnections_
              /\ poolState' = "failed"
              /\ event' = [type |-> "ctorthrow", k |-> h]
    /\ UNCHANGED <<poolSize_, outstandingConnections_, shutdown_, mutex_, cv_, dtor, dtorSaw>>
    /\ UNCHANGED threadVars
    /\ UNCHANGED <<startedShut, debt>>
    /\ UNCHANGED otherVars

\* ------------------------------------------------------------------ acquire / tryAcquire
\* The wait predicate of lines 114-116 and 141-143.
Pred == pool_ # <<>> \/ shutdown_

\* Where a wait goes after its predicate has been evaluated with the mutex held.
AfterPred(t, kind, expired) ==
    IF Pred \/ (kind = "try" /\ expired) THEN "check" ELSE "prewait"

\* acquire(), lines 111-116: lock the mutex, first evaluation of the predicate.
AcquireEnter(t, s) ==
    /\ poolState = "ready"
    /\ pc[t] = "idle"
    /\ ~guards[t][s].live
    /\ mutex_ = Free
    /\ mutex_' = t
    /\ call' = [call EXCEPT ![t] = "acquire"]
    /\ dst' = [dst EXCEPT ![t] = s]
    /\ pc' = [pc EXCEPT ![t] = AfterPred(t, "acquire", FALSE)]
    /\ startedShut' = [startedShut EXCEPT ![t] = shutdown_]
    /\ UNCHANGED <<poolState, poolSize_, totalConnections_, pool_, outstandingConnections_,
                   shutdown_, cv_, dtor, dtorSaw>>
    /\ UNCHANGED <<timeout, timedOut, available, conn, relCtx, guards>>
    /\ UNCHANGED debt
    /\ event' = NoEvent
    /\ UNCHANGED <<handles, otherVars>>

\* tryAcquire(ms), lines 138-143: lock the mutex, first evaluation of the predicate.
TryAcquireEnter(t, s, ms) ==
    /\ poolState = "ready"
    /\ pc[t] = "idle"
    /\ ~guards[t][s].live
    /\ mutex_ = Free
    /\ mutex_' = t
    /\ call' = [call EXCEPT ![t] = "try"]
    /\ timeout' = [timeout EXCEPT ![t] = ms]
    /\ dst' = [dst EXCEPT ![t] = s]
    /\ available' = [available EXCEPT ![t] = Pred]
    /\ pc' = [pc EXCEPT ![t] = AfterPred(t, "try", FALSE)]
    /\ startedShut' = [startedShut EXCEPT ![t] = shutdown_]
    /\ UNCHANGED <<poolState, poolSize_, totalConnections_, pool_, outstandingConnections_,
                   shutdown_, cv_, dtor, dtorSaw>>
    /\ UNCHANGED <<timedOut, conn, relCtx, guards>>
    /\ UNCHANGED debt
    /\ event' = NoEvent
    /\ UNCHANGED <<handles, otherVars>>

\* The wait itself: the mutex is released and the thread blocks on cv_ in one step.
\* A wait_for whose deadline has already passed (0 ms) comes back with
\* cv_status::timeout without having blocked.
Wait(t) ==
    /\ pc[t] = "prewait"
    /\ mutex_' = Free
    /\ IF call[t] = "try" /\ timeout[t] = 0
         THEN /\ pc' = [pc EXCEPT ![t] = "woken"]
              /\ timedOut' = [timedOut EXCEPT ![t] = TRUE]
              /\ cv_' = cv_
         ELSE /\ pc' = [pc EXCEPT ![t] = "waiting"]
              /\ timedOut' = timedOut
              /\ cv_' = cv_ \cup {t}
    /\ UNCHANGED <<poolState, poolSize_, totalConnections_, pool_, outstandingConnections_,
                   shutdown_, dtor, dtorSaw>>
    /\ UNCHANGED <<call, timeout, available, conn, dst, relCtx, guards>>
    /\ Quiet
    /\ UNCHANGED <<handles, otherVars>>

\* The deadline of a blocked wait_for passes.
Timeout(t) ==
    /\ pc[t] = "waiting"
    /\ call[t] = "try"
    /\ t \in cv_
    /\ cv_' = cv_ \ {t}
    /\ pc' = [pc EXCEPT ![t] = "woken"]
    /\ timedOut' = [timedOut EXCEPT ![t] = TRUE]
    /\ UNCHANGED <<poolState, poolSize_, totalConnections_, pool_, outstandingConnections_,
                   shutdown_, mutex_, dtor, dtorSaw>>
    /\ UNCHANGED <<call, timeout, available, conn, dst, relCtx, guards>>
    /\ Quiet
    /\ UNCHANGED <<handles, otherVars>>

\* A spurious wake-up, which std::condition_variable permits.
SpuriousWake(t) ==
    /\ pc[t] = "waiting"
    /\ t \in cv_
    /\ cv_' = cv_ \ {t}
    /\ pc' = [pc EXCEPT ![t] = "woken"]
    /\ UNCHANGED <<poolState, poolSize_, totalConnections_, pool_, outstandingConnections_,
                   shutdown_, mutex_, dtor, dtorSaw>>
    /\ UNCHANGED <<call, timeout, timedOut, available, conn, dst, relCtx, guards>>
    /\ Quiet
    /\ UNCHANGED <<handles, otherVars>>

\* A woken thread takes the mutex again and evaluates the predicate: the loop of
\* wait(lock, pred), and of wait_for(lock, d, pred), which returns pred() on a timeout.
Reacquire(t) ==
    /\ pc[t] = "woken"
    /\ mutex_ = Free
    /\ mutex_' = t
    /\ pc' = [pc EXCEPT ![t] = AfterPred(t, call[t], timedOut[t])]
    /\ available' = [available EXCEPT ![t] = IF call[t] = "try" THEN Pred ELSE @]
    /\ timedOut' = [timedOut EXCEPT ![t] = FALSE]
    /\ UNCHANGED <<poolState, poolSize_, totalConnections_, pool_, outstandingConnections_,
                   shutdown_, cv_, dtor, dtorSaw>>
    /\ UNCHANGED <<call, timeout, conn, dst, relCtx, guards>>
    /\ Quiet
    /\ UNCHANGED <<handles, otherVars>>

\* Mutant of AfterWait: tryAcquire ends like acquire, throwing on an empty queue.
AfterWaitThrows(kind, avail) ==
    IF shutdown_ THEN "closed"
    ELSE IF pool_ = <<>> THEN "noconn"
    ELSE "pop"

\* Mutant of AfterWait: the queue is tested before the shutdown flag.
AfterWaitQueueFirst(kind, avail) ==
    IF pool_ # <<>> /\ (kind = "acquire" \/ avail) THEN "pop"
    ELSE IF shutdown_ THEN "closed"
    ELSE IF kind = "try" THEN "empty"
    ELSE "noconn"

\* What lines 118-129 (acquire) and 145-156 (tryAcquire) decide after the wait:
\* "closed" (throw, shutting down), "empty" (nullopt), "noconn" (throw, should not
\* happen) or "pop".
AfterWait(kind, avail) ==
    IF shutdown_ THEN "closed"
    ELSE IF kind = "try" /\ (~avail \/ pool_ = <<>>) THEN "empty"
    ELSE IF pool_ = <<>> THEN "noconn"
    ELSE "pop"

\* Lines 118-129 / 145-156: the load of shutdown_, the tests, pool_.front() and pop().
\* Every path but the pop leaves the function, which unlocks the mutex.
Check(t) ==
    /\ pc[t] = "check"
    /\ LET d == AfterWait(call[t], available[t]) IN
        IF d = "pop"
          THEN /\ conn' = [conn EXCEPT ![t] = Head(pool_)]
               /\ pool_' = Tail(pool_)
               /\ debt' = [debt EXCEPT ![Head(pool_)] = @ + 1]
               /\ pc' = [pc EXCEPT ![t] = "inc"]
               /\ event' = NoEvent
               /\ UNCHANGED <<mutex_, call, timeout, available, dst, startedShut>>
          ELSE /\ mutex_' = Free
               /\ pc' = [pc EXCEPT ![t] = "idle"]
               /\ call' = [call EXCEPT ![t] = "none"]
               /\ timeout' = [timeout EXCEPT ![t] = 0]
               /\ available' = [available EXCEPT ![t] = FALSE]
               /\ dst' = [dst EXCEPT ![t] = 0]
               /\ startedShut' = [startedShut EXCEPT ![t] = FALSE]
               /\ event' = Returned(t, d)
               /\ UNCHANGED <<conn, pool_, debt>>
    /\ UNCHANGED <<poolState, poolSize_, totalConnections_, outstandingConnections_,
                   shutdown_, cv_, dtor, dtorSaw>>
    /\ UNCHANGED <<timedOut, relCtx, guards>>
    /\ UNCHANGED <<handles, otherVars>>

\* Lines 131-133 / 158-160: fetch_add, the Connection handed to the caller, unlock.
\* tryAcquire's std::optional is move-constructed from the temporary Connection.
Inc(t) ==
    /\ pc[t] = "inc"
    /\ outstandingConnections_' = outstandingConnections_ + 1
    /\ guards' = [guards EXCEPT ![t][dst[t]] =
                    IF call[t] = "try" THEN MoveCtor(NewGuard(conn[t]))[1]
                                       ELSE NewGuard(conn[t])]
    /\ conn' = [conn EXCEPT ![t] = NULL]
    /\ mutex_' = Free
    /\ pc' = [pc EXCEPT ![t] = "idle"]
    /\ call' = [call EXCEPT ![t] = "none"]
    /\ timeout' = [timeout EXCEPT ![t] = 0]
    /\ available' = [available EXCEPT ![t] = FALSE]
    /\ dst' = [dst EXCEPT ![t] = 0]
    /\ startedShut' = [startedShut EXCEPT ![t] = FALSE]
    /\ event' = Returned(t, "guard")
    /\ UNCHANGED <<poolState, poolSize_, totalConnections_, pool_, shutdown_, cv_, dtor, dtorSaw>>
    /\ UNCHANGED <<timedOut, relCtx>>
    /\ UNCHANGED debt
    /\ UNCHANGED <<handles, otherVars>>

\* ------------------------------------------------------------------ release
\* Mutant of ReleaseDec: release() without the fetch_sub.
ReleaseDecMissing(r) == outstandingConnections_

\* release(), lines 165-170, entered with the unique_ptr r: the null test and the
\* fetch_sub; the value of outstandingConnections_ afterwards.
ReleaseDec(r) ==
    IF r = NULL THEN outstandingConnections_ ELSE outstandingConnections_ - 1

\* Mutant of NotifyOne: release() without the notify_one.
NotifyNobody(waiters) == {waiters}

\* cv_.notify_one(): the sets of blocked threads it can leave behind.
NotifyOne(waiters) ==
    IF waiters = {} THEN {waiters} ELSE {waiters \ {w} : w \in waiters}

\* The pc of the threads after `woken` have been taken off the condition variable.
Wake(woken) == [u \in Threads |-> IF u \in woken THEN "woken" ELSE pc[u]]

\* ~Connection(), lines 20-23, up to release()'s fetch_sub; path is how the scope
\* of the guard ended: "normal", "return" or "throw".
Destroy(t, s, path) ==
    /\ pc[t] = "idle"
    /\ guards[t][s].live
    /\ IF NeedsRelease(guards[t][s])
         THEN /\ conn' = [conn EXCEPT ![t] = guards[t][s].conn_]
              /\ guards' = [guards EXCEPT ![t][s] = MovedOut(@)]
              /\ outstandingConnections_' = ReleaseDec(guards[t][s].conn_)
              /\ pc' = [pc EXCEPT ![t] = "rel"]
              /\ relCtx' = [relCtx EXCEPT ![t] = <<path, s, 0>>]
         ELSE /\ guards' = [guards EXCEPT ![t][s] = DeadGuard]
              /\ UNCHANGED <<conn, outstandingConnections_, pc, relCtx>>
    /\ UNCHANGED <<poolState, poolSize_, totalConnections_, pool_, shutdown_, mutex_, cv_,
                   dtor, dtorSaw>>
    /\ UNCHANGED <<call, timeout, timedOut, available, dst>>
    /\ Quiet
    /\ UNCHANGED <<handles, otherVars>>

\* operator=(Connection&& other), lines 34-45, with this = slot d and other = slot s,
\* up to release()'s fetch_sub when *this holds a Resource, to the end otherwise.
MoveAssign(t, d, s) ==
    /\ pc[t] = "idle"
    /\ guards[t][d].live
    /\ guards[t][s].live
    /\ IF d = s
         THEN UNCHANGED <<conn, guards, outstandingConnections_, pc, relCtx>>
         ELSE IF NeedsRelease(guards[t][d])
           THEN /\ conn' = [conn EXCEPT ![t] = guards[t][d].conn_]
                /\ guards' = [guards EXCEPT ![t][d] = MovedOut(@)]
                /\ outstandingConnections_' = ReleaseDec(guards[t][d].conn_)
                /\ pc' = [pc EXCEPT ![t] = "rel"]
                /\ relCtx' = [relCtx EXCEPT ![t] = <<"assign", d, s>>]
           ELSE /\ guards' = [guards EXCEPT
                                ![t][d] = MoveAdopt(guards[t][d], guards[t][s])[1],
                                ![t][s] = MoveAdopt(guards[t][d], guards[t][s])[2]]
                /\ UNCHANGED <<conn, outstandingConnections_, pc, relCtx>>
    /\ event' = IF d # s /\ ~NeedsRelease(guards[t][d])
                  THEN Moved(t, "assign", d, s, NULL)
                  ELSE NoEvent
    /\ UNCHANGED <<poolState, poolSize_, totalConnections_, pool_, shutdown_, mutex_, cv_,
                   dtor, dtorSaw>>
    /\ UNCHANGED <<call, timeout, timedOut, available, dst>>
    /\ UNCHANGED <<startedShut, debt>>
    /\ UNCHANGED <<handles, otherVars>>

\* Connection(Connection&& other), lines 26-30: slot d is constructed from slot s.
MoveConstruct(t, d, s) ==
    /\ pc[t] = "idle"
    /\ ~guards[t][d].live
    /\ guards[t][s].live
    /\ guards' = [guards EXCEPT ![t][d] = MoveCtor(guards[t][s])[1],
                                ![t][s] = MoveCtor(guards[t][s])[2]]
    /\ event' = Moved(t, "construct", d, s, NULL)
    /\ UNCHANGED poolVars
    /\ UNCHANGED <<pc, call, timeout, timedOut, available, conn, dst, relCtx>>
    /\ UNCHANGED <<startedShut, debt>>
    /\ UNCHANGED <<handles, otherVars>>

\* Mutant of Pushed: the Resource is dropped instead of pushed.
PushedNowhere(q, r) == q

\* Mutant of Pushed: the Resource is pushed twice.
PushedTwice(q, r) == Append(Append(q, r), r)

\* The queue after release()'s push, line 173.
Pushed(q, r) == Append(q, r)

\* release(), lines 172-174: lock, push, notify_one, unlock; then the caller goes on:
\* the destructor ends the guard's life, operator= adopts `other` (lines 42-44).
ReleasePush(t) ==
    /\ pc[t] = "rel"
    /\ mutex_ = Free
    /\ pool_' = Pushed(pool_, conn[t])
    /\ debt' = [debt EXCEPT ![conn[t]] = @ - 1]
    /\ \E rest \in NotifyOne(cv_) :
          /\ cv_' = rest
          /\ pc' = [Wake(cv_ \ rest) EXCEPT ![t] = "idle"]
    /\ conn' = [conn EXCEPT ![t] = NULL]
    /\ relCtx' = [relCtx EXCEPT ![t] = <<"none", 0, 0>>]
    /\ LET d == relCtx[t][2]
           s == relCtx[t][3] IN
        IF relCtx[t][1] = "assign"
          THEN /\ guards' = [guards EXCEPT
                               ![t][d] = MoveAdopt(guards[t][d], guards[t][s])[1],
                               ![t][s] = MoveAdopt(guards[t][d], guards[t][s])[2]]
               /\ event' = Moved(t, "assign", d, s, conn[t])
          ELSE /\ guards' = [guards EXCEPT ![t][d] = DeadGuard]
               /\ event' = [type |-> "exit", thread |-> t, path |-> relCtx[t][1],
                             res |-> conn[t]]
    /\ UNCHANGED <<poolState, poolSize_, totalConnections_, outstandingConnections_,
                   shutdown_, mutex_, dtor, dtorSaw>>
    /\ UNCHANGED <<call, timeout, timedOut, available, dst>>
    /\ UNCHANGED startedShut
    /\ UNCHANGED <<handles, otherVars>>

\* ------------------------------------------------------------------ ~ConnectionPool
\* Line 94: shutdown_.store(true).
DtorStore ==
    /\ poolState = "ready"
    /\ dtor = "none"
    /\ shutdown_' = TRUE
    /\ dtor' = "flagged"
    /\ UNCHANGED <<poolState, poolSize_, totalConnections_, pool_, outstandingConnections_,
                   mutex_, cv_, dtorSaw>>
    /\ UNCHANGED threadVars
    /\ Quiet
    /\ UNCHANGED <<handles, otherVars>>

\* Line 95: cv_.notify_all().
DtorNotify ==
    /\ dtor = "flagged"
    /\ cv_' = {}
    /\ pc' = Wake(cv_)
    /\ dtor' = "notified"
    /\ UNCHANGED <<poolState, poolSize_, totalConnections_, pool_, outstandingConnections_,
                   shutdown_, mutex_, dtorSaw>>
    /\ UNCHANGED <<call, timeout, timedOut, available, conn, dst, relCtx, guards>>
    /\ Quiet
    /\ UNCHANGED <<handles, otherVars>>

\* Lines 98-106: the load of outstandingConnections_ for the misuse check.
DtorCheck ==
    /\ dtor = "notified"
    /\ dtorSaw' = outstandingConnections_
    /\ dtor' = "checked"
    /\ UNCHANGED <<poolState, poolSize_, totalConnections_, pool_, outstandingConnections_,
                   shutdown_, mutex_, cv_>>
    /\ UNCHANGED threadVars
    /\ Quiet
    /\ UNCHANGED <<handles, otherVars>>

\* ------------------------------------------------------------------ specifications
ExitPaths == {"normal", "return", "throw"}

\* Threads that each hold at most one guard (slot 1) and use every operation of the
\* pool, while the pool's owner may run ~ConnectionPool at any moment.
Next ==
    \/ CtorCheck
    \/ \E opened \in BOOLEAN : CtorIter(opened)
    \/ \E t \in Threads : AcquireEnter(t, 1)
    \/ \E t \in Threads, ms \in {0, 1} : TryAcquireEnter(t, 1, ms)
    \/ \E t \in Threads : Wait(t)
    \/ \E t \in Threads : Timeout(t)
    \/ \E t \in Threads : SpuriousWake(t)
    \/ \E t \in Threads : Reacquire(t)
    \/ \E t \in Threads : Check(t)
    \/ \E t \in Threads : Inc(t)
    \/ \E t \in Threads, path \in ExitPaths : Destroy(t, 1, path)
    \/ \E t \in Threads : ReleasePush(t)
    \/ DtorStore
    \/ DtorNotify
    \/ DtorCheck

Spec == Init /\ [][Next]_vars

\* The pool in use, before its owner destroys it: Next without ~ConnectionPool.
UseNext ==
    \/ CtorCheck
    \/ \E opened \in BOOLEAN : CtorIter(opened)
    \/ \E t \in Threads : AcquireEnter(t, 1)
    \/ \E t \in Threads, ms \in {0, 1} : TryAcquireEnter(t, 1, ms)
    \/ \E t \in Threads : Wait(t)
    \/ \E t \in Threads : Timeout(t)
    \/ \E t \in Threads : SpuriousWake(t)
    \/ \E t \in Threads : Reacquire(t)
    \/ \E t \in Threads : Check(t)
    \/ \E t \in Threads : Inc(t)
    \/ \E t \in Threads, path \in ExitPaths : Destroy(t, 1, path)
    \/ \E t \in Threads : ReleasePush(t)

\* What the scheduler and the clock guarantee: a thread that can take a step of the
\* call it is in takes it, and a deadline passes. The calls themselves, the ends of
\* the guards' scopes and spurious wake-ups are not forced.
Fairness ==
    \A t \in Threads :
        /\ WF_vars(Wait(t))
        /\ WF_vars(Timeout(t))
        /\ WF_vars(Reacquire(t))
        /\ WF_vars(Check(t))
        /\ WF_vars(Inc(t))
        /\ WF_vars(ReleasePush(t))

FairSpec == Init /\ [][UseNext]_vars /\ Fairness

\* Guards moved between objects: thread 1 has NumSlots guards and move-constructs,
\* move-assigns and destroys them in any order; thread 2 competes for the pool's
\* NumSlots Resources with a single guard.
MoveThreads == {1, 2} \cap Threads
MoveSlotsOf(t) == IF t = 1 THEN Slots ELSE {1}

MoveInit ==
    /\ Init
    /\ poolSize_ = NumSlots

MoveNext ==
    \/ CtorCheck
    \/ \E opened \in BOOLEAN : CtorIter(opened)
    \/ \E t \in MoveThreads : \E s \in MoveSlotsOf(t) : AcquireEnter(t, s)
    \/ \E t \in MoveThreads : Wait(t)
    \/ \E t \in MoveThreads : Reacquire(t)
    \/ \E t \in MoveThreads : Check(t)
    \/ \E t \in MoveThreads : Inc(t)
    \/ \E t \in MoveThreads : \E s \in MoveSlotsOf(t), path \in ExitPaths : Destroy(t, s, path)
    \/ \E t \in MoveThreads : \E d \in MoveSlotsOf(t), s \in MoveSlotsOf(t) : MoveAssign(t, d, s)
    \/ \E t \in MoveThreads : \E d \in MoveSlotsOf(t), s \in MoveSlotsOf(t) : MoveConstruct(t, d, s)
    \/ \E t \in MoveThreads : ReleasePush(t)

MoveSpec == MoveInit /\ [][MoveNext]_vars

\* ------------------------------------------------------------------ where a Resource is
\* The Resources the pool has created.
Created == 1..totalConnections_
\* The positions of the idle queue that hold Resource r.
InIdle(r) == {i \in 1..Len(pool_) : pool_[i] = r}
\* The live guards that reference Resource r.
GuardsHolding(r) == {g \in Threads \X Slots : guards[g[1]][g[2]].live /\ guards[g[1]][g[2]].conn_ = r}
\* The calls in progress whose local `conn` holds Resource r.
InTransit(r) == {t \in Threads : conn[t] = r}
\* The live guards that reference some Resource.
LiveGuards == {g \in Threads \X Slots : guards[g[1]][g[2]].live /\ guards[g[1]][g[2]].conn_ # NULL}
\* The threads between the pop and the fetch_add of an acquisition, or between the
\* fetch_sub and the push of a release.
MidHandOver == {t \in Threads : pc[t] \in {"inc", "rel"}}

C2_InUseBounded ==
    poolState = "ready" =>
        /\ inUse >= 0
        /\ inUse <= totalConnections_
        /\ Cardinality(LiveGuards) <= totalConnections_

\* C2 witness: all N = PoolSize Resources are borrowed by guards and a further thread
\* is blocked waiting for one.
C2_Witness ==
    /\ poolState = "ready"
    /\ NumThreads > totalConnections_
    /\ totalConnections_ = PoolSize
    /\ inUse = PoolSize
    /\ Cardinality(LiveGuards) = PoolSize
    /\ cv_ # {}

\* C3 as stated: in every reachable state every Resource is either in the idle queue
\* or referenced by exactly one live guard, and not both.
C3_IdleOrOneGuard ==
    poolState = "ready" =>
        \A r \in Created : Cardinality(InIdle(r)) + Cardinality(GuardsHolding(r)) = 1

\* C3 amended: every Resource is in exactly one place, where the places are the idle
\* queue, one live guard, and the local `conn` of one acquire/tryAcquire/release call
\* in progress; so no Resource is referenced by two guards or both idle and guarded.
C3_ExactlyOnePlace ==
    poolState = "ready" =>
        \A r \in Created :
            Cardinality(InIdle(r)) + Cardinality(GuardsHolding(r)) + Cardinality(InTransit(r)) = 1

\* C3 witness: one Resource is inside a call in progress while another is referenced
\* by a guard.
C3_Witness ==
    /\ poolState = "ready"
    /\ \E r, q \in Created : InTransit(r) # {} /\ GuardsHolding(q) # {} /\ InIdle(r) = {}

\* C4: a live guard that references a Resource stops referencing it only by entering
\* release() with it (the counter goes down by one in that step), whatever the exit
\* path of its scope; and when the destructor has finished, the Resource is back in
\* the idle queue exactly once, no guard references it, the counter is not touched a
\* second time and the Resource's pops and pushes are level again.
C4_Step ==
    /\ \A t \in Threads, s \in Slots :
          (guards[t][s].live /\ guards[t][s].conn_ # NULL /\ guards'[t][s] # guards[t][s])
            => /\ pc'[t] = "rel"
               /\ relCtx'[t][1] \in ExitPaths
               /\ conn'[t] = guards[t][s].conn_
               /\ guards'[t][s].conn_ = NULL
               /\ outstandingConnections_' = outstandingConnections_ - 1
    /\ \A r \in Resources :
          (event'.type = "exit" /\ event'.res = r)
            => /\ event'.path \in ExitPaths
               /\ pool_' = Append(pool_, r)
               /\ Cardinality(InIdle(r)') = 1
               /\ GuardsHolding(r)' = {}
               /\ InTransit(r)' = {}
               /\ \A s \in Slots : ~guards'[event'.thread][s].live
               /\ outstandingConnections_' = outstandingConnections_
               /\ debt[r] = 1
               /\ debt'[r] = 0
    /\ event'.type = "exit" => event'.res \in Resources

C4_GuardReturnsExactlyOnce == [][C4_Step]_vars

\* C4 witness: a guard's scope was left by an exception and its destructor has just
\* put the Resource back into the idle queue.
C4_Witness ==
    /\ event.type = "exit"
    /\ event.path = "throw"
    /\ InIdle(event.res) # {}
    /\ debt[event.res] = 0

\* C5: a move transfers the borrow: the moved-from guard is invalid and its destructor
\* would release nothing, the destination alone references the moved Resource and
\* will release it, a Resource the move-assignment target held before is back in the
\* idle queue exactly once; every Resource is in one place, the counter equals the
\* number of guards that reference a Resource when no hand-over is in progress, and
\* once no guard references a Resource the releases equal the acquisitions.
C5_MoveTransfersBorrow ==
    /\ event.type = "moved" =>
          LET t == event.thread
              from == guards[t][event.src]
              to == guards[t][event.dst] IN
            /\ from.live /\ from.conn_ = NULL
            /\ ~NeedsRelease(from)
            /\ to.live /\ to.conn_ = event.res
            /\ event.res # NULL =>
                  /\ NeedsRelease(to)
                  /\ GuardsHolding(event.res) = {<<t, event.dst>>}
                  /\ InIdle(event.res) = {}
                  /\ debt[event.res] = 1
            /\ event.old # NULL =>
                  /\ Cardinality(InIdle(event.old)) = 1
                  /\ GuardsHolding(event.old) = {}
                  /\ InTransit(event.old) = {}
                  /\ debt[event.old] = 0
    /\ poolState = "ready" =>
          /\ \A r \in Created :
                /\ Cardinality(InIdle(r)) + Cardinality(GuardsHolding(r))
                      + Cardinality(InTransit(r)) = 1
                /\ debt[r] = (IF InIdle(r) = {} THEN 1 ELSE 0)
          /\ MidHandOver = {} => outstandingConnections_ = Cardinality(LiveGuards)
          /\ (MidHandOver = {} /\ LiveGuards = {}) =>
                /\ \A r \in Created : debt[r] = 0
                /\ outstandingConnections_ = 0
                /\ Len(pool_) = totalConnections_

\* C5 witness: a guard that held one Resource has been move-assigned a guard that
\* held another one.
C5_Witness ==
    /\ event.type = "moved"
    /\ event.how = "assign"
    /\ event.old # NULL
    /\ event.res # NULL
    /\ event.old # event.res

\* C6: immediately after a successful construction with poolSize N, N >= 1 and
\* available() = N, inUse() = 0, size() = N, outstandingConnections() = 0.
C6_FreshPool ==
    event.type = "constructed" =>
        /\ poolState = "ready"
        /\ poolSize_ >= 1
        /\ availableCount = poolSize_
        /\ inUse = 0
        /\ size = poolSize_
        /\ outstandingConnections = 0

\* C6 witness: a pool of the largest size has just been constructed.
C6_Witness ==
    /\ event.type = "constructed"
    /\ poolSize_ = PoolSize
    /\ PoolSize > 1

\* Thread t is inside the wait of acquire().
InAcquireWait(t) == call[t] = "acquire" /\ pc[t] \in {"prewait", "waiting", "woken"}

\* C7, exhausted pool: when N guards reference Resources, available() = 0.
C7_Exhausted ==
    (poolState = "ready" /\ Cardinality(LiveGuards) = totalConnections_) => availableCount = 0

\* C7, steps: acquire() gets past its wait only when the idle queue is non-empty (or
\* the pool shuts down), it blocks while the queue is empty, and a release that finds
\* threads blocked on the condition variable wakes one of them.
C7_Step ==
    /\ \A t \in Threads :
          (call'[t] = "acquire" /\ pc'[t] = "check" /\ pc[t] # "check")
            => (pool_ # <<>> \/ shutdown_)
    /\ \A t \in Threads :
          (InAcquireWait(t) /\ ~InAcquireWait(t)') => pc'[t] = "check"
    /\ \A t \in Threads :
          (pc[t] = "idle" /\ call'[t] = "acquire" /\ pool_ = <<>> /\ ~shutdown_)
            => pc'[t] = "prewait"
    /\ \A t \in Threads :
          (pc[t] = "rel" /\ pc'[t] # "rel" /\ cv_ # {})
            => \E w \in cv_ : w \notin cv_' /\ pc'[w] = "woken"

\* C7, no lost wake-up: no thread stays blocked on the condition variable inside
\* acquire() for ever while the idle queue is non-empty and the pool is not shut down;
\* and while a woken acquire() is pending with a Resource idle, some call returns a
\* guard (or the pool shuts down).
C7_NoLostWakeup ==
    /\ \A t \in Threads :
          []<>~(call[t] = "acquire" /\ t \in cv_ /\ pool_ # <<>> /\ ~shutdown_)
    /\ ((\E t \in Threads : call[t] = "acquire" /\ pc[t] = "woken") /\ pool_ # <<>> /\ ~shutdown_)
          ~> (shutdown_ \/ (event.type = "return" /\ event.res = "guard"))

C8_Step ==
    /\ \A t \in Threads :
          (call[t] = "try" /\ pc[t] = "woken" /\ timedOut[t] /\ pc'[t] # "woken")
            => /\ pc'[t] = "check"
               /\ available'[t] = (pool_ # <<>> \/ shutdown_)
    /\ \A t \in Threads :
          (call[t] = "try" /\ pc[t] = "check" /\ pc'[t] # "check" /\ ~shutdown_ /\ pool_ = <<>>)
            => /\ event'.type = "return"
               /\ event'.thread = t
               /\ event'.res = "empty"
    /\ (event'.type = "return" /\ event'.res = "empty")
            => /\ event'.kind = "try"
               /\ pc[event'.thread] = "check"
               /\ pool_ = <<>>
               /\ UNCHANGED <<pool_, outstandingConnections_, debt, guards>>
    /\ \A t \in Threads :
          (call[t] = "try" /\ timeout[t] = 0 /\ pc[t] = "prewait" /\ pc'[t] # "prewait")
            => /\ pc'[t] = "woken"
               /\ timedOut'[t]

\* C8, states: a tryAcquire(0 ms) is never blocked on the condition variable, and a
\* tryAcquire that is past its wait with available = false has an empty queue.
C8_State ==
    /\ \A t \in Threads :
          (call[t] = "try" /\ timeout[t] = 0) => (t \notin cv_ /\ pc[t] # "waiting")
    /\ \A t \in Threads :
          (call[t] = "try" /\ pc[t] = "check" /\ ~available[t]) => pool_ = <<>>

\* C8: tryAcquire returns an empty optional when its timeout expires on an empty queue
\* of a pool that is not shutting down, leaving queue and counter as they were; with
\* 0 ms it does so without blocking.
C8_TimeoutReturnsEmpty == []C8_State /\ [][C8_Step]_vars

\* C8 witness: tryAcquire(0 ms) has just returned empty on an exhausted pool that is
\* not shutting down.
C8_Witness ==
    /\ event.type = "return"
    /\ event.kind = "try"
    /\ event.res = "empty"
    /\ event.timeout = 0
    /\ poolState = "ready"
    /\ ~shutdown_
    /\ pool_ = <<>>
    /\ Cardinality(LiveGuards) = totalConnections_

\* No call is in progress and no guard is in scope: all threads have finished.
Quiescent ==
    /\ poolState = "ready"
    /\ \A t \in Threads : pc[t] = "idle"
    /\ \A t \in Threads, s \in Slots : ~guards[t][s].live

\* C9: when all threads have finished their acquire/release pairs, every Resource has
\* been pushed back as often as it was popped (acquisitions = releases), and
\* available() = N, inUse() = 0, outstandingConnections() = 0.
C9_QuiescentBalanced ==
    Quiescent =>
        /\ \A r \in Resources : debt[r] = 0
        /\ totalConnections_ = poolSize_
        /\ availableCount = totalConnections_
        /\ inUse = 0
        /\ outstandingConnections = 0

\* C9 witness: more threads than Resources; the last guard has just been released,
\* nothing is in progress, and the queue is no longer in its order of construction.
C9_Witness ==
    /\ Quiescent
    /\ NumThreads > totalConnections_
    /\ totalConnections_ = PoolSize
    /\ event.type = "exit"
    /\ pool_ # [i \in 1..PoolSize |-> i]

\* C10, states: a call that began with the shutdown flag set never blocks, never pops
\* a Resource, and returns with the pool-closed error.
C10_State ==
    /\ \A t \in Threads :
          startedShut[t] => (shutdown_ /\ pc[t] = "check" /\ conn[t] = NULL)
    /\ (event.type = "return" /\ event.startedShut) => event.res = "closed"
    /\ shutdown_ => dtor # "none"

\* C10, steps: the flag is never cleared; a call that performs its test after the
\* wait (line 118 / 145) with the flag set fails with the pool-closed error, whatever
\* the queue holds and whether or not tryAcquire's wait timed out; a failed call
\* changes neither the queue nor the counter and hands out no guard.
C10_Step ==
    /\ shutdown_ => shutdown_'
    /\ \A t \in Threads :
          (pc[t] = "check" /\ shutdown_ /\ pc'[t] # "check")
            => /\ event'.type = "return"
               /\ event'.thread = t
               /\ event'.res = "closed"
    /\ (event'.type = "return" /\ event'.res = "closed")
            => /\ shutdown_
               /\ UNCHANGED <<pool_, outstandingConnections_, debt, guards>>

\* C10: once the shutdown flag is set, acquire() and tryAcquire() fail with the
\* pool-closed error and leave the queue and the counter alone.
C10_ShutdownFailsCalls == []C10_State /\ [][C10_Step]_vars

\* C10 witness: a tryAcquire that began after the flag was set has just failed with
\* the pool-closed error although a Resource is idle.
C10_Witness ==
    /\ event.type = "return"
    /\ event.kind = "try"
    /\ event.res = "closed"
    /\ event.startedShut
    /\ pool_ # <<>>

\* ------------------------------------------------------------------ shutdown with waiters
\* What the scheduler guarantees when the owner destroys the pool: Fairness, and
\* ~ConnectionPool, once it has begun, runs to its end. Spurious wake-ups, new calls
\* and the ends of guards' scopes are not forced.
ShutFairness ==
    /\ Fairness
    /\ WF_vars(DtorNotify)
    /\ WF_vars(DtorCheck)

ShutSpec == Init /\ [][Next]_vars /\ ShutFairness

\* Thread t is inside the wait of acquire() or tryAcquire(): its predicate was false
\* and it is about to block, is blocked, or was woken and has not yet re-tested.
InWait(t) == pc[t] \in {"prewait", "waiting", "woken"}

\* C11: a thread that is inside the wait of acquire() or tryAcquire() when the
\* shutdown flag is set eventually leaves the call with the pool-closed error, and no
\* thread stays blocked on the condition variable forever once the flag has been set
\* and notify_all has been called.
C11_WaitersReleased ==
    \A t \in Threads :
        /\ (shutdown_ /\ InWait(t))
              ~> (event.type = "return" /\ event.thread = t /\ event.res = "closed")
        /\ (dtor \in {"notified", "checked"} /\ t \in cv_) ~> (t \notin cv_)

\* ------------------------------------------------------------------ construction failure
\* C12: construction is all-or-nothing. While the loop runs the open handles are the
\* ones queued so far; the pool becomes usable only with all poolSize_ handles open;
\* and when the k-th open fails (1 <= k <= poolSize_) the constructor throws and none
\* of the k-1 handles opened before remains open.
C12_AllOrNothing ==
    /\ poolState = "loop" => handles = {pool_[i] : i \in 1..Len(pool_)}
    /\ poolState = "ready" => Cardinality(handles) = poolSize_
    /\ poolState = "failed" => (handles = {} /\ pool_ = <<>>)
    /\ event.type = "ctorthrow" =>
          (poolState = "failed" /\ event.k \in 1..poolSize_ /\ handles = {})
    /\ event.type = "constructed" => poolState = "ready"

\* C12 witness: the last open of a pool of PoolSize > 1 has just failed, after
\* PoolSize - 1 handles had been opened.
C12_Witness ==
    /\ event.type = "ctorthrow"
    /\ event.k = PoolSize
    /\ totalConnections_ = PoolSize - 1
    /\ totalConnections_ >= 1

\* ------------------------------------------------------------------ Analyzer: locks
\* std::shared_mutex with nobody in it.
SchemaFree == schemaMutex_.w = Free /\ schemaMutex_.r = {}

\* Mutant of CanLockShared: lock_shared ignores an exclusive owner.
CanLockSharedAlways == TRUE

\* Mutant of CanLockShared: a reader also waits for the operation lock.
CanLockSharedNeedsDb == schemaMutex_.w = Free /\ dbMutex_ = Free

\* std::shared_lock lock(schemaMutex_) can be taken: no exclusive owner.
CanLockShared == schemaMutex_.w = Free

\* Mutant of CanLockDb: the operation lock is never contended.
CanLockDbAlways == TRUE

\* std::lock_guard lock(dbMutex_) can be taken.
CanLockDb == dbMutex_ = Free

\* Mutant of SchemaUnlocked: the lock object's destructor does not unlock.
SchemaKept(t) == schemaMutex_

\* schemaMutex_ after thread t has left it, and dbMutex_ after t has left it: the
\* destructors of the lock objects at the end of a function.
SchemaUnlocked(t) ==
    [w |-> IF schemaMutex_.w = t THEN Free ELSE schemaMutex_.w, r |-> schemaMutex_.r \ {t}]
DbUnlocked(t) == IF dbMutex_ = t THEN Free ELSE dbMutex_

\* Thread t moves to position p of its call.
AnAt(t, p) == [an EXCEPT ![t].pc = p]

\* ------------------------------------------------------------------ Analyzer: the callers
\* A thread can begin a call: the calls the threads make are not used up.
CanCall == IF callsLeft.bounded THEN callsLeft.n > 0 ELSE TRUE

\* A thread has begun a call.
Called == callsLeft' = IF callsLeft.bounded THEN Limited(callsLeft.n - 1) ELSE Unlimited

\* ------------------------------------------------------------------ Analyzer: native calls
\* The calls that only take dbMutex_ and use the native handle. "stmt" stands for
\* query, selectAll, selectWhere, getRowCount, isOpen, getLastError, getTableNames,
\* getColumnNames, execute, beginTransaction, commit, rollback and enableWALMode;
\* "close" for close(); "openclose" for the close() that open() begins with and
\* "open" for the rest of open().
NativeKinds == {"stmt", "close", "openclose"}

\* std::lock_guard lock(dbMutex_) at the head of a native call.
NativeEnter(t, kind) ==
    /\ an[t].pc = "idle"
    /\ CanCall
    /\ kind \in NativeKinds
    /\ CanLockDb
    /\ dbMutex_' = t
    /\ an' = [an EXCEPT ![t] = [AnIdle EXCEPT !.pc = "native", !.kind = kind]]
    /\ anEvent' = NoEvent
    /\ UNCHANGED <<db, dbTables, schemaMutex_, schemaCache, isCacheInitialized>>
    /\ Called
    /\ UNCHANGED notAnCalls

\* Analyzer::open, line 77: the lock taken after close() has returned.
OpenRelock(t) ==
    /\ an[t].pc = "reopen"
    /\ CanLockDb
    /\ dbMutex_' = t
    /\ an' = [an EXCEPT ![t] = [an[t] EXCEPT !.pc = "native", !.kind = "open"]]
    /\ anEvent' = NoEvent
    /\ UNCHANGED <<db, dbTables, schemaMutex_, schemaCache, isCacheInitialized>>
    /\ UNCHANGED notAnVars

\* Mutant of DbAfterOpen: the failure path leaves the handle sqlite3_open produced.
DbAfterOpenLeaves(ok) == TRUE

\* Analyzer::open, lines 79-106: whether Impl::db is non-null afterwards. sqlite3_open
\* yields a handle even when it fails; the failure path closes it and resets db.
DbAfterOpen(ok) == ok

\* Analyzer::open, lines 79-106, after sqlite3_open succeeded (ok) or failed: the value
\* returned and whether lastError was assigned. No path of it throws.
OpenResult(ok) ==
    IF ok THEN [ret |-> TRUE, wrote |-> FALSE, threw |-> FALSE]
          ELSE [ret |-> FALSE, wrote |-> TRUE, threw |-> FALSE]

\* What a native call that is not open() reports in the record of its return.
NoResult == [ret |-> TRUE, wrote |-> FALSE, threw |-> FALSE]

\* The body of a native call and its return, which unlocks dbMutex_. defs is the
\* definition of the tables after the statement (a DDL statement changes it); ok is the
\* result of sqlite3_open. The close() that open() begins with leaves in `i` whether
\* it found a handle open.
NativeExit(t, defs, ok) ==
    /\ an[t].pc = "native"
    /\ db' = CASE an[t].kind \in {"close", "openclose"} -> FALSE
               [] an[t].kind = "open" -> DbAfterOpen(ok)
               [] OTHER -> db
    /\ dbTables' = IF an[t].kind = "stmt" /\ db THEN defs ELSE dbTables
    /\ dbMutex_' = DbUnlocked(t)
    /\ an' = [an EXCEPT ![t] = IF an[t].kind = "openclose"
                                 THEN [AnIdle EXCEPT !.pc = "reopen", !.i = IF db THEN 1 ELSE 0]
                                 ELSE AnIdle]
    /\ anEvent' = [type |-> "native", thread |-> t, kind |-> an[t].kind,
                   failed |-> (an[t].kind = "open" /\ ~ok),
                   hadOpen |-> (an[t].kind = "open" /\ an[t].i = 1),
                   out |-> IF an[t].kind = "open" THEN OpenResult(ok) ELSE NoResult]
    /\ UNCHANGED <<schemaMutex_, schemaCache, isCacheInitialized>>
    /\ UNCHANGED notAnVars

\* ------------------------------------------------------------------ Analyzer: execute, query
\* Analyzer::execute, lines 289-306, on a handle that is open or not, with sqlite3_exec
\* succeeding (execOk) or not: the value returned and whether lastError was assigned.
ExecuteResult(open, execOk) ==
    IF ~open THEN [ret |-> FALSE, wrote |-> FALSE, threw |-> FALSE]
    ELSE IF ~execOk THEN [ret |-> FALSE, wrote |-> TRUE, threw |-> FALSE]
    ELSE [ret |-> TRUE, wrote |-> FALSE, threw |-> FALSE]

\* Analyzer::query, lines 247-277, with sqlite3_prepare_v2 succeeding (prepared) or
\* not and `rows` rows stepped before sqlite3_step returned something else than
\* SQLITE_ROW, be it SQLITE_DONE or an error, which the loop does not tell apart:
\* the number of rows returned and whether lastError was assigned.
QueryResult(open, prepared, rows) ==
    IF ~open THEN [ret |-> 0, wrote |-> FALSE, threw |-> FALSE]
    ELSE IF ~prepared THEN [ret |-> 0, wrote |-> TRUE, threw |-> FALSE]
    ELSE [ret |-> rows, wrote |-> FALSE, threw |-> FALSE]

\* execute(sql) from its lock to its return; a statement that succeeds can change the
\* tables' definitions to defs.
ExecuteExit(t, defs, execOk) ==
    /\ an[t].pc = "native"
    /\ an[t].kind = "stmt"
    /\ dbTables' = IF db /\ execOk THEN defs ELSE dbTables
    /\ dbMutex_' = DbUnlocked(t)
    /\ an' = [an EXCEPT ![t] = AnIdle]
    /\ anEvent' = [type |-> "native", thread |-> t, kind |-> "execute",
                   failed |-> (~db \/ ~execOk), hadOpen |-> FALSE,
                   out |-> ExecuteResult(db, execOk)]
    /\ UNCHANGED <<db, schemaMutex_, schemaCache, isCacheInitialized>>
    /\ UNCHANGED notAnVars

\* query(sql) from its lock to its return; stepOk tells whether the stepping ended
\* with SQLITE_DONE.
QueryExit(t, prepared, rows, stepOk) ==
    /\ an[t].pc = "native"
    /\ an[t].kind = "stmt"
    /\ dbMutex_' = DbUnlocked(t)
    /\ an' = [an EXCEPT ![t] = AnIdle]
    /\ anEvent' = [type |-> "native", thread |-> t, kind |-> "query",
                   failed |-> (~db \/ ~prepared \/ ~stepOk), hadOpen |-> FALSE,
                   out |-> QueryResult(db, prepared, rows)]
    /\ UNCHANGED <<db, dbTables, schemaMutex_, schemaCache, isCacheInitialized>>
    /\ UNCHANGED notAnVars

\* ------------------------------------------------------------------ Analyzer: getTableSchema
\* The record of a return of getTableSchema/getCachedSchema by thread t: the table,
\* the value returned, the path taken, and what the cache held for the table when
\* the returning step began.
SchemaReturn(t, op, path, val) ==
    [type |-> op, thread |-> t, tab |-> an[t].tab, path |-> path, val |-> val,
     had |-> schemaCache[an[t].tab], flag |-> isCacheInitialized]

\* Mutant of FastPath: the flag is not consulted, the cache is always tried first.
FastPathAlways(flag) == TRUE

\* Line 206: the fast path is tried only when the flag is set.
FastPath(flag) == flag

\* getTableSchema(tab), line 206: the lock-free load of isCacheInitialized.
GtsLoad(t, tab) ==
    /\ an[t].pc = "idle"
    /\ CanCall
    /\ an' = [an EXCEPT ![t] = [AnIdle EXCEPT !.pc = IF FastPath(isCacheInitialized)
                                                        THEN "g_sl" ELSE "g_xl",
                                              !.kind = "gts", !.tab = tab]]
    /\ anEvent' = NoEvent
    /\ UNCHANGED <<db, dbTables, dbMutex_, schemaMutex_, schemaCache, isCacheInitialized>>
    /\ Called
    /\ UNCHANGED notAnCalls

\* Line 209: std::shared_lock lock(schemaMutex_).
GtsShared(t) ==
    /\ an[t].pc = "g_sl"
    /\ CanLockShared
    /\ schemaMutex_' = [schemaMutex_ EXCEPT !.r = @ \cup {t}]
    /\ an' = AnAt(t, "g_find")
    /\ anEvent' = NoEvent
    /\ UNCHANGED <<db, dbTables, dbMutex_, schemaCache, isCacheInitialized>>
    /\ UNCHANGED notAnVars

\* Lines 210-215: find; a hit returns the entry, a miss leaves the block; both
\* release the shared lock.
GtsFind(t) ==
    /\ an[t].pc = "g_find"
    /\ schemaMutex_' = SchemaUnlocked(t)
    /\ IF schemaCache[an[t].tab] # Absent
         THEN /\ an' = [an EXCEPT ![t] = AnIdle]
              /\ anEvent' = SchemaReturn(t, "gts", "hit", schemaCache[an[t].tab])
         ELSE /\ an' = AnAt(t, "g_xl")
              /\ anEvent' = NoEvent
    /\ UNCHANGED <<db, dbTables, dbMutex_, schemaCache, isCacheInitialized>>
    /\ UNCHANGED notAnVars

\* Line 218: std::unique_lock cacheLock(schemaMutex_).
GtsExclusive(t) ==
    /\ an[t].pc = "g_xl"
    /\ SchemaFree
    /\ schemaMutex_' = [schemaMutex_ EXCEPT !.w = t]
    /\ an' = AnAt(t, "g_db")
    /\ anEvent' = NoEvent
    /\ UNCHANGED <<db, dbTables, dbMutex_, schemaCache, isCacheInitialized>>
    /\ UNCHANGED notAnVars

\* Line 219: std::lock_guard dbLock(dbMutex_).
GtsDbLock(t) ==
    /\ an[t].pc = "g_db"
    /\ CanLockDb
    /\ dbMutex_' = t
    /\ an' = AnAt(t, "g_fetch")
    /\ anEvent' = NoEvent
    /\ UNCHANGED <<db, dbTables, schemaMutex_, schemaCache, isCacheInitialized>>
    /\ UNCHANGED notAnVars

\* Mutant of Inserted: the schema fetched is returned but not stored.
InsertedNothing(cache, tab, schema) == cache

\* schemaCache[tableName] = schema, line 241: the map afterwards.
Inserted(cache, tab, schema) == [cache EXCEPT ![tab] = schema]

\* Lines 221-244: with no handle an empty schema is returned; otherwise the table's
\* definition is read from the database, stored in the cache and returned. Both
\* locks are released on return.
GtsFetch(t) ==
    /\ an[t].pc = "g_fetch"
    /\ IF ~db
         THEN /\ schemaCache' = schemaCache
              /\ anEvent' = SchemaReturn(t, "gts", "closed", EmptySchema)
         ELSE /\ schemaCache' = Inserted(schemaCache, an[t].tab, dbTables[an[t].tab])
              /\ anEvent' = SchemaReturn(t, "gts", "miss", dbTables[an[t].tab])
    /\ schemaMutex_' = SchemaUnlocked(t)
    /\ dbMutex_' = DbUnlocked(t)
    /\ an' = [an EXCEPT ![t] = AnIdle]
    /\ UNCHANGED <<db, dbTables, isCacheInitialized>>
    /\ UNCHANGED notAnVars

\* ------------------------------------------------------------------ Analyzer: getCachedSchema
\* getCachedSchema(tab), line 397: std::shared_lock lock(schemaMutex_).
GcsShared(t, tab) ==
    /\ an[t].pc = "idle"
    /\ CanCall
    /\ CanLockShared
    /\ schemaMutex_' = [schemaMutex_ EXCEPT !.r = @ \cup {t}]
    /\ an' = [an EXCEPT ![t] = [AnIdle EXCEPT !.pc = "gc_find", !.kind = "gcs", !.tab = tab]]
    /\ anEvent' = NoEvent
    /\ UNCHANGED <<db, dbTables, dbMutex_, schemaCache, isCacheInitialized>>
    /\ Called
    /\ UNCHANGED notAnCalls

\* Lines 399-405: find; the entry or std::nullopt (Absent) is returned.
GcsFind(t) ==
    /\ an[t].pc = "gc_find"
    /\ schemaMutex_' = SchemaUnlocked(t)
    /\ an' = [an EXCEPT ![t] = AnIdle]
    /\ anEvent' = SchemaReturn(t, "gcs", IF schemaCache[an[t].tab] # Absent THEN "hit" ELSE "nullopt",
                               schemaCache[an[t].tab])
    /\ UNCHANGED <<db, dbTables, dbMutex_, schemaCache, isCacheInitialized>>
    /\ UNCHANGED notAnVars

\* ------------------------------------------------------------------ Analyzer: cacheAllSchemas
\* cacheAllSchemas(), line 339: std::unique_lock lock(schemaMutex_).
CasExclusive(t) ==
    /\ an[t].pc = "idle"
    /\ CanCall
    /\ SchemaFree
    /\ schemaMutex_' = [schemaMutex_ EXCEPT !.w = t]
    /\ an' = [an EXCEPT ![t] = [AnIdle EXCEPT !.pc = "c_db", !.kind = "cas"]]
    /\ anEvent' = NoEvent
    /\ UNCHANGED <<db, dbTables, dbMutex_, schemaCache, isCacheInitialized>>
    /\ Called
    /\ UNCHANGED notAnCalls

\* Line 340: std::lock_guard dbLock(dbMutex_).
CasDbLock(t) ==
    /\ an[t].pc = "c_db"
    /\ CanLockDb
    /\ dbMutex_' = t
    /\ an' = AnAt(t, "c_enum")
    /\ anEvent' = NoEvent
    /\ UNCHANGED <<db, dbTables, schemaMutex_, schemaCache, isCacheInitialized>>
    /\ UNCHANGED notAnVars

\* Lines 342-357: return when there is no handle, else enumerate the tables; i counts
\* the tables cached so far.
CasEnum(t) ==
    /\ an[t].pc = "c_enum"
    /\ an' = IF db THEN [an EXCEPT ![t].pc = "c_ins", ![t].i = 0] ELSE AnAt(t, "ret")
    /\ anEvent' = NoEvent
    /\ UNCHANGED <<db, dbTables, dbMutex_, schemaMutex_, schemaCache, isCacheInitialized>>
    /\ UNCHANGED notAnVars

\* Mutant of CasNext: the flag is published after the first table.
CasNextEarly(i) == IF i >= 1 THEN "c_flag" ELSE "c_ins"

\* Where the loop of lines 360-380 goes after i tables: on while tables remain.
CasNext(i) == IF i >= NumTables THEN "c_flag" ELSE "c_ins"

\* One iteration of the loop of lines 360-380: the next table's definition is read
\* and stored in the cache.
CasInsert(t) ==
    /\ an[t].pc = "c_ins"
    /\ an[t].i < NumTables
    /\ schemaCache' = [schemaCache EXCEPT ![an[t].i + 1] = dbTables[an[t].i + 1]]
    /\ an' = [an EXCEPT ![t].i = @ + 1, ![t].pc = CasNext(an[t].i + 1)]
    /\ anEvent' = NoEvent
    /\ UNCHANGED <<db, dbTables, dbMutex_, schemaMutex_, isCacheInitialized>>
    /\ UNCHANGED notAnVars

\* Line 382: isCacheInitialized.store(true).
CasFlag(t) ==
    /\ an[t].pc = "c_flag"
    /\ isCacheInitialized' = TRUE
    /\ an' = AnAt(t, "ret")
    /\ anEvent' = NoEvent
    /\ UNCHANGED <<db, dbTables, dbMutex_, schemaMutex_, schemaCache>>
    /\ UNCHANGED notAnVars

\* ------------------------------------------------------------------ Analyzer: clearSchemaCache
\* clearSchemaCache(), line 392: std::unique_lock lock(schemaMutex_).
ClrExclusive(t) ==
    /\ an[t].pc = "idle"
    /\ CanCall
    /\ SchemaFree
    /\ schemaMutex_' = [schemaMutex_ EXCEPT !.w = t]
    /\ an' = [an EXCEPT ![t] = [AnIdle EXCEPT !.pc = "cl_clear", !.kind = "clr"]]
    /\ anEvent' = NoEvent
    /\ UNCHANGED <<db, dbTables, dbMutex_, schemaCache, isCacheInitialized>>
    /\ Called
    /\ UNCHANGED notAnCalls

\* Line 393: schemaCache.clear().
ClrClear(t) ==
    /\ an[t].pc = "cl_clear"
    /\ schemaCache' = [tab \in Tables |-> Absent]
    /\ an' = AnAt(t, "cl_flag")
    /\ anEvent' = NoEvent
    /\ UNCHANGED <<db, dbTables, dbMutex_, schemaMutex_, isCacheInitialized>>
    /\ UNCHANGED notAnVars

\* Line 394: isCacheInitialized.store(false).
ClrFlag(t) ==
    /\ an[t].pc = "cl_flag"
    /\ isCacheInitialized' = FALSE
    /\ an' = AnAt(t, "ret")
    /\ anEvent' = NoEvent
    /\ UNCHANGED <<db, dbTables, dbMutex_, schemaMutex_, schemaCache>>
    /\ UNCHANGED notAnVars

\* The end of cacheAllSchemas and of clearSchemaCache: the lock objects are
\* destroyed.
AnReturn(t) ==
    /\ an[t].pc = "ret"
    /\ schemaMutex_' = SchemaUnlocked(t)
    /\ dbMutex_' = DbUnlocked(t)
    /\ an' = [an EXCEPT ![t] = AnIdle]
    /\ anEvent' = [type |-> "done", thread |-> t, kind |-> an[t].kind]
    /\ UNCHANGED <<db, dbTables, schemaCache, isCacheInitialized>>
    /\ UNCHANGED notAnVars

\* ------------------------------------------------------------------ Analyzer: specifications
\* One Analyzer shared by NumCallers threads that call every operation in any
\* order and a thread that runs statements; the statements executed do not change
\* table definitions.
AnInitial ==
    /\ Init
    /\ poolSize_ = PoolSize

AnNext ==
    \/ \E t \in AnThreads, kind \in NativeKinds : NativeEnter(t, kind)
    \/ \E t \in AnThreads : OpenRelock(t)
    \/ \E t \in AnThreads, ok \in BOOLEAN : NativeExit(t, dbTables, ok)
    \/ \E t \in Callers, tab \in Tables : GtsLoad(t, tab)
    \/ \E t \in Callers : GtsShared(t)
    \/ \E t \in Callers : GtsFind(t)
    \/ \E t \in Callers : GtsExclusive(t)
    \/ \E t \in Callers : GtsDbLock(t)
    \/ \E t \in Callers : GtsFetch(t)
    \/ \E t \in Callers, tab \in Tables : GcsShared(t, tab)
    \/ \E t \in Callers : GcsFind(t)
    \/ \E t \in Callers : CasExclusive(t)
    \/ \E t \in Callers : CasDbLock(t)
    \/ \E t \in Callers : CasEnum(t)
    \/ \E t \in Callers : CasInsert(t)
    \/ \E t \in Callers : CasFlag(t)
    \/ \E t \in Callers : ClrExclusive(t)
    \/ \E t \in Callers : ClrClear(t)
    \/ \E t \in Callers : ClrFlag(t)
    \/ \E t \in Callers : AnReturn(t)

AnSpec == AnInitial /\ [][AnNext]_vars

\* A step of thread t inside the call it has begun.
InCall(t) ==
    \/ OpenRelock(t)
    \/ \E ok \in BOOLEAN : NativeExit(t, dbTables, ok)
    \/ GtsShared(t) \/ GtsFind(t) \/ GtsExclusive(t) \/ GtsDbLock(t) \/ GtsFetch(t)
    \/ GcsFind(t)
    \/ CasDbLock(t) \/ CasEnum(t) \/ CasInsert(t) \/ CasFlag(t)
    \/ ClrClear(t) \/ ClrFlag(t)
    \/ AnReturn(t)

\* What the scheduler guarantees: a thread inside a call that can take its next step
\* takes it, and a statement terminates. Beginning a call is not forced.
AnFairness == \A t \in AnThreads : WF_vars(InCall(t))

\* One Analyzer and a finite set of calls: the threads of AnSpec begin NumCallers + 1
\* calls between them, concurrently or one after another.
AnFinite ==
    /\ Constructing(Limited(NumCallers + 1))
    /\ poolSize_ = PoolSize

AnFinSpec == AnFinite /\ [][AnNext]_vars /\ AnFairness

\* One thread uses one Analyzer sequentially: open, close, schema lookups,
\* cacheAllSchemas, clearSchemaCache, and execute and query with statements that
\* succeed or fail; a statement that succeeds may change any table's definition.
SeqNext ==
    \/ \E kind \in NativeKinds : NativeEnter(1, kind)
    \/ OpenRelock(1)
    \/ \E defs \in [Tables -> Defs], ok \in BOOLEAN : NativeExit(1, defs, ok)
    \/ \E defs \in [Tables -> Defs], execOk \in BOOLEAN : ExecuteExit(1, defs, execOk)
    \/ \E prepared \in BOOLEAN, rows \in {0, 1}, stepOk \in BOOLEAN :
          QueryExit(1, prepared, rows, stepOk)
    \/ \E tab \in Tables : GtsLoad(1, tab)
    \/ GtsShared(1)
    \/ GtsFind(1)
    \/ GtsExclusive(1)
    \/ GtsDbLock(1)
    \/ GtsFetch(1)
    \/ CasExclusive(1)
    \/ CasDbLock(1)
    \/ CasEnum(1)
    \/ CasInsert(1)
    \/ CasFlag(1)
    \/ ClrExclusive(1)
    \/ ClrClear(1)
    \/ ClrFlag(1)
    \/ AnReturn(1)

SeqSpec == AnInitial /\ [][SeqNext]_vars

\* ------------------------------------------------------------------ Analyzer: who is where
\* Thread t is inside the section of a call that uses the native handle.
InNative(t) == an[t].pc \in {"native", "g_fetch", "c_enum", "c_ins"}
\* Thread t is reading the schema cache map (find).
Reading(t) == an[t].pc \in {"g_find", "gc_find"}
\* Thread t is about to write the schema cache map (insert, clear).
Writing(t) == an[t].pc \in {"g_fetch", "c_ins", "cl_clear"}
\* A cacheAllSchemas by thread t has begun and not yet stored every table's entry.
Populating(t) == an[t].kind = "cas" /\ an[t].pc \in {"c_enum", "c_ins"}

\* ------------------------------------------------------------------ claims C13..C17
\* C13: on one Analyzer no two calls are inside their native-handle section at the
\* same time, whichever calls they are (open, close, isOpen, query, execute, the
\* transaction verbs, getTableNames, getColumnNames, enableWALMode, the miss path of
\* getTableSchema, cacheAllSchemas); the thread inside owns dbMutex_, so the sections
\* are totally ordered by the order in which the lock is taken.
C13_NativeCallsExclusive ==
    /\ \A t, u \in AnThreads : (t # u /\ InNative(t)) => ~InNative(u)
    /\ \A t \in AnThreads : InNative(t) => dbMutex_ = t

\* C13 witness: one thread is inside execute while a getTableSchema miss and the
\* second half of an open() wait for the operation lock.
C13_Witness ==
    \E t, u, v \in AnThreads :
        /\ an[t].pc = "native" /\ an[t].kind = "stmt"
        /\ an[u].pc = "g_db"
        /\ an[v].pc = "reopen"

\* C14: no read of the schema cache map overlaps a write of it, and no two writes
\* overlap; reads may overlap each other.
C14_CacheReadersWriters ==
    /\ \A t, u \in AnThreads : (t # u /\ Writing(t)) => (~Reading(u) /\ ~Writing(u))
    /\ \A t \in AnThreads : Writing(t) => (schemaMutex_.w = t /\ schemaMutex_.r = {})
    /\ \A t \in AnThreads : Reading(t) => (t \in schemaMutex_.r /\ schemaMutex_.w = Free)

\* C14 witness: a getTableSchema fast path and a getCachedSchema read the map at the
\* same time.
C14_Witness ==
    \E t, u \in AnThreads :
        /\ t # u
        /\ an[t].pc = "g_find"
        /\ an[u].pc = "gc_find"

\* Thread t is in the fast path of getTableSchema for a table the cache holds.
HitPending(t) ==
    /\ an[t].kind = "gts"
    /\ an[t].pc \in {"g_sl", "g_find"}
    /\ schemaCache[an[t].tab] # Absent

\* Another thread than t is inside a query (a statement) and owns the operation lock.
QueryRunningBeside(t) ==
    \E u \in AnThreads : u # t /\ an[u].pc = "native" /\ an[u].kind = "stmt" /\ dbMutex_ = u

\* C15 as stated: a getTableSchema whose table is cached, begun with the flag set,
\* can always go on while another thread holds the operation lock for a query: it
\* is never kept waiting for its shared cache lock.
C15_HitNeverWaits ==
    \A t \in AnThreads :
        (HitPending(t) /\ an[t].pc = "g_sl" /\ isCacheInitialized /\ QueryRunningBeside(t))
            => ENABLED GtsShared(t)

\* C15 amended, states: the fast path holds at most the shared cache lock, never the
\* exclusive cache lock or the operation lock; its lock_shared can be taken whenever
\* no thread owns the exclusive cache lock, whoever owns the operation lock and
\* however many other readers there are; its find needs nothing further.
C15_State ==
    \A t \in AnThreads :
        /\ (an[t].kind = "gts" /\ an[t].pc \in {"g_sl", "g_find"})
              => (schemaMutex_.w # t /\ dbMutex_ # t)
        /\ (an[t].pc = "g_sl" /\ schemaMutex_.w = Free) => ENABLED GtsShared(t)
        /\ an[t].pc = "g_find" => ENABLED GtsFind(t)

\* C15 amended, steps: a lookup that finds the table returns the cached entry from
\* the fast path, and a returned hit came from a thread that held only the shared
\* lock.
C15_Step ==
    /\ \A t \in AnThreads :
          (an[t].pc = "g_find" /\ schemaCache[an[t].tab] # Absent /\ an'[t].pc # "g_find")
            => /\ an'[t] = AnIdle
               /\ anEvent'.type = "gts" /\ anEvent'.thread = t /\ anEvent'.path = "hit"
               /\ anEvent'.val = schemaCache[an[t].tab]
    /\ (anEvent'.type = "gts" /\ anEvent'.path = "hit")
          => /\ an[anEvent'.thread].pc = "g_find"
             /\ anEvent'.thread \in schemaMutex_.r
             /\ dbMutex_ # anEvent'.thread
             /\ schemaMutex_.w = Free

\* C15 amended: with the flag set and the table present, getTableSchema returns the
\* cached entry holding only the shared cache lock and never requests the exclusive
\* cache lock or the operation lock; readers never block each other, and the lookup
\* completes while another thread holds the operation lock provided no thread owns
\* the exclusive cache lock.
C15_HitHoldsOnlySharedLock == []C15_State /\ [][C15_Step]_vars

\* C15 witness: a cached lookup has just returned a hit while another thread is
\* inside a query and a third reader is in the map.
C15_Witness ==
    /\ anEvent.type = "gts"
    /\ anEvent.path = "hit"
    /\ QueryRunningBeside(anEvent.thread)
    /\ \E u \in AnThreads : u # anEvent.thread /\ Reading(u)

\* C16, states: while a cacheAllSchemas has begun and not yet stored every entry no
\* thread is reading the map, and it reaches the flag store only with an entry for
\* every enumerated table.
C16_State ==
    /\ (\E t \in AnThreads : Populating(t)) => (\A u \in AnThreads : ~Reading(u))
    /\ \A t \in AnThreads :
          an[t].pc = "c_flag" => (\A tab \in Tables : schemaCache[tab] # Absent)

\* C16, steps: the flag goes from false to true only by the store of a
\* cacheAllSchemas that has stored every entry, and no getTableSchema or
\* getCachedSchema returns what it read from the map in a step taken while a
\* cacheAllSchemas is populating.
C16_Step ==
    /\ (~isCacheInitialized /\ isCacheInitialized')
          => \E t \in AnThreads :
                /\ an[t].pc = "c_flag"
                /\ \A tab \in Tables : schemaCache[tab] # Absent
    /\ (anEvent'.type \in {"gts", "gcs"} /\ anEvent'.path \in {"hit", "nullopt"})
          => (\A t \in AnThreads : ~Populating(t))

\* C16: cacheAllSchemas sets the flag only after every enumerated table's entry is
\* in the map, and no concurrent reader returns a result read from a partly
\* populated cache.
C16_PublishAfterPopulate == []C16_State /\ [][C16_Step]_vars

\* C16 witness: a cacheAllSchemas has stored the first table's entry and not the
\* last one's, while a getTableSchema that saw the flag set waits for its shared
\* lock and a getTableSchema miss waits for the exclusive lock.
C16_Witness ==
    /\ NumTables >= 2
    /\ \E t, u \in AnThreads :
        /\ an[t].pc = "c_ins" /\ an[t].i = 1
        /\ schemaCache[1] # Absent
        /\ schemaCache[NumTables] = Absent
        /\ an[u].pc = "g_sl"

\* C17: a getTableSchema(t) that finds an entry for t in the map (populated by
\* cacheAllSchemas or by an earlier miss, and not cleared since) returns that
\* entry's contents, the same as the call before it, whatever was executed in
\* between.
C17_RepeatedSchemaIdentical ==
    (anEvent.type = "gts" /\ anEvent.had # Absent) => anEvent.val = anEvent.had

\* ------------------------------------------------------------------ ThreadPool: constructor
\* ThreadPool::ThreadPool(numThreads), AsyncExecutor.cpp:12-23: 0 threads is refused
\* with an exception, else numThreads worker threads are started, each at the top of
\* workerThread's loop.
TpCtor(numThreads) ==
    /\ tpDtor = "unbuilt"
    /\ IF numThreads = 0
         THEN /\ tpDtor' = "failed"
              /\ wk' = wk
         ELSE /\ tpDtor' = "none"
              /\ wk' = [w \in Workers |->
                          IF w <= numThreads THEN [pc |-> "top", task |-> 0] ELSE wk[w]]
    /\ UNCHANGED <<tasks_, queueMutex_, condition_, stop_, enq, done, joinIdx,
                   begunStopped, appended>>
    /\ UNCHANGED notWpVars

\* ThreadPool::size(), AsyncExecutor.h:251: workers_.size().
WorkersSize == Cardinality({w \in Workers : wk[w].pc # "absent"})

\* ------------------------------------------------------------------ ThreadPool: workerThread
\* The wait predicate of lines 47-49.
WkPred == stop_ \/ tasks_ # <<>>

\* Where a worker goes after it has evaluated the predicate with the mutex held.
WkAfterPred == IF WkPred THEN "check" ELSE "prewait"

\* Lines 45-49: std::unique_lock lock(queueMutex_) and the first evaluation of the
\* wait predicate.
WkLock(w) ==
    /\ wk[w].pc = "top"
    /\ queueMutex_ = Free
    /\ queueMutex_' = w
    /\ wk' = [wk EXCEPT ![w].pc = WkAfterPred]
    /\ UNCHANGED <<tasks_, condition_, stop_, enq, done, tpDtor, joinIdx,
                   begunStopped, appended>>
    /\ UNCHANGED notWpVars

\* condition_.wait: the mutex is released and the worker blocks, in one step.
WkWait(w) ==
    /\ wk[w].pc = "prewait"
    /\ queueMutex_' = Free
    /\ condition_' = condition_ \cup {w}
    /\ wk' = [wk EXCEPT ![w].pc = "waiting"]
    /\ UNCHANGED <<tasks_, stop_, enq, done, tpDtor, joinIdx, begunStopped, appended>>
    /\ UNCHANGED notWpVars

\* A spurious wake-up, which std::condition_variable permits.
WkSpurious(w) ==
    /\ wk[w].pc = "waiting"
    /\ w \in condition_
    /\ condition_' = condition_ \ {w}
    /\ wk' = [wk EXCEPT ![w].pc = "woken"]
    /\ UNCHANGED <<tasks_, queueMutex_, stop_, enq, done, tpDtor, joinIdx,
                   begunStopped, appended>>
    /\ UNCHANGED notWpVars

\* A woken worker takes the mutex again and evaluates the predicate.
WkReacquire(w) ==
    /\ wk[w].pc = "woken"
    /\ queueMutex_ = Free
    /\ queueMutex_' = w
    /\ wk' = [wk EXCEPT ![w].pc = WkAfterPred]
    /\ UNCHANGED <<tasks_, condition_, stop_, enq, done, tpDtor, joinIdx,
                   begunStopped, appended>>
    /\ UNCHANGED notWpVars

\* Mutant of Popped: the front task is taken but stays in the queue.
PoppedNothing(q) == q

\* tasks_.pop(), line 60: the queue afterwards.
Popped(q) == Tail(q)

\* Mutant of WkExits: a worker leaves as soon as the stop flag is set.
WkExitsOnStop == stop_

\* The test of line 51: the worker returns when stop_ is set and the queue is empty.
WkExits == stop_ /\ tasks_ = <<>>

\* Lines 51-61: the exit test, else the front task is moved out and popped; the
\* lock's scope ends.
WkCheck(w) ==
    /\ wk[w].pc = "check"
    /\ queueMutex_' = Free
    /\ IF WkExits
         THEN /\ wk' = [wk EXCEPT ![w] = [pc |-> "exited", task |-> 0]]
              /\ tasks_' = tasks_
         ELSE IF tasks_ # <<>>
           THEN /\ wk' = [wk EXCEPT ![w] = [pc |-> "run", task |-> Head(tasks_)]]
                /\ tasks_' = Popped(tasks_)
           ELSE /\ wk' = [wk EXCEPT ![w] = [pc |-> "top", task |-> 0]]
                /\ tasks_' = tasks_
    /\ UNCHANGED <<condition_, stop_, enq, done, tpDtor, joinIdx, begunStopped, appended>>
    /\ UNCHANGED notWpVars

\* Lines 64-67: task() runs to its end (a packaged_task keeps what the closure
\* throws), and the loop starts over.
WkRun(w) ==
    /\ wk[w].pc = "run"
    /\ done' = [done EXCEPT ![wk[w].task] = @ + 1]
    /\ wk' = [wk EXCEPT ![w] = [pc |-> "top", task |-> 0]]
    /\ appended' = SelectSeq(appended, LAMBDA k : k # wk[w].task)
    /\ UNCHANGED <<tasks_, queueMutex_, condition_, stop_, enq, tpDtor, joinIdx,
                   begunStopped>>
    /\ UNCHANGED notWpVars

\* ------------------------------------------------------------------ ThreadPool: enqueue
\* enqueue, lines 320-326: the packaged_task and its future are made, then
\* std::lock_guard lock(queueMutex_).
EnqLock(k) ==
    /\ tpDtor \notin {"unbuilt", "failed"}
    /\ enq[k] = "new"
    /\ queueMutex_ = Free
    /\ queueMutex_' = Enqueuer(k)
    /\ enq' = [enq EXCEPT ![k] = "locked"]
    /\ begunStopped' = [begunStopped EXCEPT ![k] = stop_]
    /\ UNCHANGED <<tasks_, condition_, stop_, wk, done, tpDtor, joinIdx, appended>>
    /\ UNCHANGED notWpVars

\* Mutant of EnqAppended: the task is put at the front of the queue.
EnqPrepended(q, k) == <<k>> \o q

\* tasks_.emplace(...), line 334: the queue afterwards.
EnqAppended(q, k) == Append(q, k)

\* Mutant of EnqRejects: enqueue never looks at the stop flag.
EnqRejectsNever == FALSE

\* The test of line 328.
EnqRejects == stop_

\* Lines 328-334: throw when stopped, else append the task; the lock's scope ends.
EnqCheck(k) ==
    /\ enq[k] = "locked"
    /\ queueMutex_' = Free
    /\ IF EnqRejects
         THEN /\ enq' = [enq EXCEPT ![k] = "rejected"]
              /\ tasks_' = tasks_
              /\ appended' = appended
         ELSE /\ enq' = [enq EXCEPT ![k] = "notify"]
              /\ tasks_' = EnqAppended(tasks_, k)
              /\ appended' = Append(appended, k)
    /\ UNCHANGED <<condition_, stop_, wk, done, tpDtor, joinIdx, begunStopped>>
    /\ UNCHANGED notWpVars

\* The wk of the workers after `woken` have been taken off the condition variable.
WkWake(woken) == [w \in Workers |-> IF w \in woken THEN [wk[w] EXCEPT !.pc = "woken"] ELSE wk[w]]

\* Lines 336-337: condition_.notify_one() and the return of the future.
EnqNotify(k) ==
    /\ enq[k] = "notify"
    /\ \E rest \in NotifyOne(condition_) :
          /\ condition_' = rest
          /\ wk' = WkWake(condition_ \ rest)
    /\ enq' = [enq EXCEPT ![k] = "returned"]
    /\ UNCHANGED <<tasks_, queueMutex_, stop_, done, tpDtor, joinIdx, begunStopped, appended>>
    /\ UNCHANGED notWpVars

\* ------------------------------------------------------------------ ~ThreadPool
\* The tasks enqueue() has appended: its call is past the append.
Accepted == {k \in Tasks : enq[k] \in {"notify", "returned"}}

\* Line 27: stop_.store(true).
TpStop ==
    /\ tpDtor = "none"
    /\ stop_' = TRUE
    /\ tpDtor' = "flagged"
    /\ UNCHANGED <<tasks_, queueMutex_, condition_, wk, enq, done, joinIdx, begunStopped, appended>>
    /\ UNCHANGED notWpVars

\* Line 28: condition_.notify_all().
TpNotifyAll ==
    /\ tpDtor = "flagged"
    /\ condition_' = {}
    /\ wk' = WkWake(condition_)
    /\ tpDtor' = "joining"
    /\ UNCHANGED <<tasks_, queueMutex_, stop_, enq, done, joinIdx, begunStopped, appended>>
    /\ UNCHANGED notWpVars

\* Lines 30-36: worker.join() returns once that worker thread has ended; after the
\* last element the destructor is done.
TpJoin ==
    /\ tpDtor = "joining"
    /\ wk[joinIdx].pc = "exited"
    /\ IF joinIdx = WorkersSize
         THEN tpDtor' = "done" /\ joinIdx' = joinIdx
         ELSE tpDtor' = tpDtor /\ joinIdx' = joinIdx + 1
    /\ UNCHANGED <<tasks_, queueMutex_, condition_, stop_, wk, enq, done,
                   begunStopped, appended>>
    /\ UNCHANGED notWpVars

\* ------------------------------------------------------------------ ThreadPool: specification
\* A ThreadPool of up to NumWorkers workers, NumTasks enqueue() calls from threads
\* of their own, and the owner, who may destroy the pool at any moment.
WpNext ==
    \/ \E numThreads \in 0..NumWorkers : TpCtor(numThreads)
    \/ \E w \in Workers : WkLock(w)
    \/ \E w \in Workers : WkWait(w)
    \/ \E w \in Workers : WkSpurious(w)
    \/ \E w \in Workers : WkReacquire(w)
    \/ \E w \in Workers : WkCheck(w)
    \/ \E w \in Workers : WkRun(w)
    \/ \E k \in Tasks : EnqLock(k)
    \/ \E k \in Tasks : EnqCheck(k)
    \/ \E k \in Tasks : EnqNotify(k)
    \/ TpStop
    \/ TpNotifyAll
    \/ TpJoin

\* What the scheduler guarantees: a thread that can take the next step of what it is
\* doing takes it, every task terminates, and the destructor, once begun, goes on.
\* New enqueue() calls, the destruction itself and spurious wake-ups are not forced.
WpFairness ==
    /\ \A w \in Workers :
          WF_vars(WkLock(w) \/ WkWait(w) \/ WkReacquire(w) \/ WkCheck(w) \/ WkRun(w))
    /\ \A k \in Tasks : WF_vars(EnqCheck(k) \/ EnqNotify(k))
    /\ WF_vars(TpNotifyAll \/ TpJoin)

WpSpec == AnInitial /\ [][WpNext]_vars /\ WpFairness

\* ------------------------------------------------------------------ claims C18..C20
\* Every worker thread has returned from workerThread.
AllExited == WorkersSize > 0 /\ \A w \in Workers : wk[w].pc \in {"exited", "absent"}

\* C18, states: once every worker has exited the queue is empty and every task that
\* enqueue() appended has been run.
C18_State ==
    AllExited => (tasks_ = <<>> /\ \A k \in Accepted : done[k] >= 1)

\* C18, steps: a worker exits only when the stop flag is set and the queue is empty,
\* and a task is appended only while the flag is unset.
C18_Step ==
    /\ \A w \in Workers :
          (wk[w].pc # "exited" /\ wk'[w].pc = "exited") => (stop_ /\ tasks_ = <<>>)
    /\ \A k \in Tasks :
          (enq[k] = "locked" /\ enq'[k] = "notify") => ~stop_

\* C18: every task appended before stop was requested is eventually run; a worker
\* exits only when the stop flag is set and the queue is empty, so no appended task
\* is left in the queue when the last worker exits. Tasks are appended only while
\* the flag is unset, the set of appended tasks only grows and a task that has run
\* stays run, so "again and again every appended task has been run" says that each
\* of them is eventually run.
C18_QueuedTasksRun ==
    /\ []C18_State
    /\ [][C18_Step]_vars
    /\ []<>(\A k \in Accepted : done[k] >= 1)

\* C18 witness: stop has just been requested while all NumTasks tasks are in the
\* queue and none has been run.
C18_Witness ==
    /\ tpDtor = "flagged"
    /\ stop_
    /\ Len(tasks_) = NumTasks
    /\ \A k \in Tasks : done[k] = 0

\* C19, states: an enqueue() that began after the stop flag was set ends rejected,
\* and a rejected task is never in the queue, never held by a worker and never run.
C19_State ==
    \A k \in Tasks :
        /\ (begunStopped[k] /\ enq[k] # "locked") => enq[k] = "rejected"
        /\ enq[k] = "rejected" =>
              /\ done[k] = 0
              /\ \A i \in 1..Len(tasks_) : tasks_[i] # k
              /\ \A w \in Workers : wk[w].task # k

\* C19, steps: with the flag set, the test under the lock is the call's last step:
\* it throws and leaves the queue as it was.
C19_Step ==
    \A k \in Tasks :
        (enq[k] = "locked" /\ stop_ /\ enq'[k] # "locked")
            => (enq'[k] = "rejected" /\ tasks_' = tasks_ /\ queueMutex_' = Free)

\* C19: no task enqueued after stop is accepted: the call fails at its test of the
\* flag, appends nothing, and its closure is never executed.
C19_NoEnqueueAfterStop == []C19_State /\ [][C19_Step]_vars

\* C19 witness: an enqueue() that began after the flag was set has been rejected
\* while a worker is still running a task accepted earlier.
C19_Witness ==
    \E k \in Tasks :
        /\ begunStopped[k]
        /\ enq[k] = "rejected"
        /\ \E w \in Workers : wk[w].pc = "run"

\* C20: once the stop flag is set and notify_all has been called, every worker
\* thread eventually exits and the destructor's joins complete.
C20_ShutdownTerminates ==
    (tpDtor = "joining") ~> (tpDtor = "done" /\ AllExited)

\* ------------------------------------------------------------------ claims C21, C29
\* How many times task k is in the queue.
TimesQueued(k) == Cardinality({i \in 1..Len(tasks_) : tasks_[i] = k})

\* The workers that have dequeued task k and not yet run it to its end.
Holders(k) == {w \in Workers : wk[w].task = k}

\* C21, states: a task enqueue() accepted is in exactly one place: once in the
\* queue, or with one worker, or run once (its packaged_task has published its
\* result once); a task that was not accepted is in none of them.
C21_State ==
    \A k \in Tasks :
        TimesQueued(k) + Cardinality(Holders(k)) + done[k]
            = (IF k \in Accepted THEN 1 ELSE 0)

\* C21, steps: a task's run count grows only by one, in a step of the one worker
\* that holds it, which then holds it no longer.
C21_Step ==
    \A k \in Tasks :
        done'[k] # done[k] =>
            /\ done'[k] = done[k] + 1
            /\ \E w \in Workers :
                  /\ wk[w] = [pc |-> "run", task |-> k]
                  /\ Holders(k) = {w}
                  /\ wk'[w].task = 0

\* C21: every accepted task is dequeued by exactly one worker, executed exactly
\* once, and its result is published exactly once; no task is executed by two
\* workers and no accepted task is dropped.
C21_TaskRunsExactlyOnce == []C21_State /\ [][C21_Step]_vars

\* C21 witness: two workers each hold a task of their own while the stop flag is
\* unset, or one task has been run while another worker holds a second one.
C21_Witness ==
    /\ ~stop_
    /\ \E k1 \in Tasks, k2 \in Tasks, w \in Workers :
          /\ k1 # k2
          /\ done[k1] = 1
          /\ wk[w] = [pc |-> "run", task |-> k2]
          /\ WorkersSize >= 2

\* The number of tasks that workers have taken out of the queue and not yet run to
\* their end.
Dequeued == Len(appended) - Len(tasks_)

\* C29, states: the queue is what enqueue() appended, in that order, without the
\* tasks dequeued so far; the tasks before it in the order of the appends are the
\* ones workers hold.
C29_State ==
    /\ Dequeued >= 0
    /\ tasks_ = SubSeq(appended, Dequeued + 1, Len(appended))
    /\ \A i \in 1..Dequeued : Holders(appended[i]) # {}

\* C29, steps: the task a worker dequeues is the one appended first among the tasks
\* that no worker has dequeued yet; with a single worker thread the task that is run
\* to its end is the one appended first among the tasks not yet run.
C29_Step ==
    /\ \A w \in Workers :
          (wk[w].pc # "run" /\ wk'[w].pc = "run") =>
              /\ Dequeued < Len(appended)
              /\ wk'[w].task = appended[Dequeued + 1]
    /\ \A k \in Tasks :
          (WorkersSize = 1 /\ done'[k] # done[k]) =>
              /\ appended # <<>>
              /\ k = Head(appended)

\* C29: the task queue is FIFO: tasks are dequeued, and so started, in the order
\* in which enqueue() appended them; with a single worker thread they are run to
\* completion in exactly that order.
C29_QueueIsFifo == []C29_State /\ [][C29_Step]_vars

\* C29 witness: a single worker has run one task and holds the task appended after
\* it, which has the smaller number, while a third call has not appended yet or the
\* queue is empty.
C29_Witness ==
    /\ WorkersSize = 1
    /\ \E k1 \in Tasks, k2 \in Tasks, w \in Workers :
          /\ k2 < k1
          /\ done[k1] = 1
          /\ appended = <<k2>>
          /\ wk[w] = [pc |-> "run", task |-> k2]

\* ------------------------------------------------------------------ claims C25, C26, C30
\* C25: a failing execute() returns false, a failing query() returns no row, each
\* assigns the error text getLastError() returns, and neither throws, whatever the
\* cause: a closed handle, a statement that cannot be prepared or executed, or a
\* statement that fails while it is stepped.
C25_FailuresReported ==
    (anEvent.type = "native" /\ anEvent.kind \in {"execute", "query"} /\ anEvent.failed)
        => /\ anEvent.out.ret = (IF anEvent.kind = "execute" THEN FALSE ELSE 0)
           /\ anEvent.out.wrote
           /\ ~anEvent.out.threw

\* C26: open() never throws; a failing open returns false, assigns lastError and
\* leaves the handle closed, also when a handle was open before the call; after an
\* open that succeeds the handle is open.
C26_OpenFailsClosed ==
    (anEvent.type = "native" /\ anEvent.kind = "open")
        => /\ ~anEvent.out.threw
           /\ anEvent.failed => (~anEvent.out.ret /\ anEvent.out.wrote /\ ~db)
           /\ ~anEvent.failed => (anEvent.out.ret /\ db)

\* C26 witness: an open() that found the handle open has failed and returned.
C26_Witness ==
    /\ anEvent.type = "native"
    /\ anEvent.kind = "open"
    /\ anEvent.failed
    /\ anEvent.hadOpen

QbNew(kind) ==
    /\ kind \in {"delete", "update"}
    /\ qb' = [NoBuilder EXCEPT !.kind = kind]
    /\ qbEvent' = NoEvent
    /\ UNCHANGED qbTable
    /\ UNCHANGED notQbVars

\* Where(column, value): validateColumn throws for a column the table does not have
\* (known = FALSE), otherwise the condition column = value is appended to filters_
\* (DeleteBuilder.cpp:47-57, QueryBuilder.cpp:949-962).
QbWhere(v, known) ==
    /\ qb.kind # "none"
    /\ Len(qb.filters_) < NumWheres
    /\ qb' = IF known THEN [qb EXCEPT !.filters_ = Append(@, v)] ELSE qb
    /\ qbEvent' = NoEvent
    /\ UNCHANGED qbTable
    /\ UNCHANGED notQbVars

\* UpdateBuilder::Set(column, value), QueryBuilder.cpp:935-947: updates_[column] = value
\* for a column the table has.
QbSet(v, known) ==
    /\ qb.kind = "update"
    /\ qb' = IF known THEN [qb EXCEPT !.updates_ = {v}] ELSE qb
    /\ qbEvent' = NoEvent
    /\ UNCHANGED qbTable
    /\ UNCHANGED notQbVars

\* Unsafe(), DeleteBuilder.cpp:81-85, QueryBuilder.cpp:964-968.
QbUnsafe ==
    /\ qb.kind # "none"
    /\ qb' = [qb EXCEPT !.allowUnsafe_ = TRUE]
    /\ qbEvent' = NoEvent
    /\ UNCHANGED qbTable
    /\ UNCHANGED notQbVars

\* Mutant of SafeExecution: no safety check.
SafeExecutionAlways(filters, allowUnsafe) == TRUE

\* validateSafeExecution (DeleteBuilder.cpp:154-164, QueryBuilder.cpp:1124-1134) does
\* not throw.
SafeExecution(filters, allowUnsafe) == ~(filters = <<>> /\ ~allowUnsafe)

\* The test of QueryBuilder.cpp:972-975, which only UpdateBuilder::Execute has.
HasUpdates(b) == b.kind = "delete" \/ b.updates_ # {}

\* A row satisfies every condition of the WHERE clause buildSql writes
\* (DeleteBuilder.cpp:116-125, QueryBuilder.cpp:1023-1031); none means every row.
Matches(row, filters) == \A i \in 1..Len(filters) : row[2] = filters[i]

\* The table after the statement buildSql writes for builder b has been executed.
Applied(b, table) ==
    IF b.kind = "delete"
      THEN {row \in table : ~Matches(row, b.filters_)}
      ELSE {IF Matches(row, b.filters_)
              THEN <<row[1], CHOOSE v \in b.updates_ : TRUE>> ELSE row : row \in table}

\* Execute(), DeleteBuilder.cpp:87-108 and QueryBuilder.cpp:970-996: the checks, then
\* analyzer_.execute(sql), which succeeds (execOk) or not; a failure of either throws.
QbExecute(execOk) ==
    /\ qb.kind # "none"
    /\ LET sent == HasUpdates(qb) /\ SafeExecution(qb.filters_, qb.allowUnsafe_)
           ok == sent /\ ExecuteResult(TRUE, execOk).ret IN
        /\ qbTable' = IF ok THEN Applied(qb, qbTable) ELSE qbTable
        /\ qbEvent' = [type |-> "execute", builder |-> qb, sent |-> sent, threw |-> ~ok,
                       changed |-> (ok /\ Applied(qb, qbTable) # qbTable)]
    /\ UNCHANGED qb
    /\ UNCHANGED notQbVars

\* One thread builds DELETE and UPDATE statements for one table and executes them.
QbNext ==
    \/ \E kind \in {"delete", "update"} : QbNew(kind)
    \/ \E v \in Vals, known \in BOOLEAN : QbWhere(v, known)
    \/ \E v \in Vals, known \in BOOLEAN : QbSet(v, known)
    \/ QbUnsafe
    \/ \E execOk \in BOOLEAN : QbExecute(execOk)

QbSpec == AnInitial /\ [][QbNext]_vars

\* ------------------------------------------------------------------ claim C27
\* An Execute() has just ended on a builder without conditions and without Unsafe().
UnsafeAttempt ==
    /\ qbEvent.type = "execute"
    /\ qbEvent.builder.filters_ = <<>>
    /\ ~qbEvent.builder.allowUnsafe_

\* An Execute() has just ended on a builder with a condition or with Unsafe().
SafeAttempt ==
    /\ qbEvent.type = "execute"
    /\ (qbEvent.builder.filters_ # <<>> \/ qbEvent.builder.allowUnsafe_)

\* C27 as stated: without conditions and without Unsafe() Execute() throws before any
\* statement reaches the database and changes no row; with a condition or after
\* Unsafe() the statement is executed.
C27_UnsafeNeedsOptIn ==
    /\ UnsafeAttempt => (qbEvent.threw /\ ~qbEvent.sent /\ ~qbEvent.changed)
    /\ SafeAttempt => qbEvent.sent

\* C27, amended: with a condition or after Unsafe() the statement is executed if the
\* builder is a DELETE builder or an UPDATE builder with at least one column Set; an
\* UPDATE builder without a column throws before anything reaches the database.
C27_UnsafeNeedsOptInAndColumns ==
    /\ UnsafeAttempt => (qbEvent.threw /\ ~qbEvent.sent /\ ~qbEvent.changed)
    /\ (SafeAttempt /\ HasUpdates(qbEvent.builder)) => qbEvent.sent
    /\ (SafeAttempt /\ ~HasUpdates(qbEvent.builder)) =>
          (qbEvent.threw /\ ~qbEvent.sent /\ ~qbEvent.changed)

\* C27 witness: an UPDATE of every row, rejected earlier, has been executed after
\* Unsafe() and changed the table.
C27_Witness ==
    /\ qbEvent.type = "execute"
    /\ qbEvent.builder.kind = "update"
    /\ qbEvent.builder.filters_ = <<>>
    /\ qbEvent.builder.allowUnsafe_
    /\ qbEvent.sent
    /\ qbEvent.changed

\* ------------------------------------------------------------------ AsyncExecutor
\* AsyncExecutor::AsyncExecutor(pool, threadPoolSize), AsyncExecutor.cpp:81-84: the
\* pool it refers to exists; its ThreadPool member is constructed.
AeCtor(threadPoolSize) ==
    /\ poolState = "ready"
    /\ TpCtor(threadPoolSize)

\* The task worker w is running: the closure of a verb (AsyncExecutor.cpp:90-93 and
\* the like).
Closure(w) == wk[w].task

\* Worker w is inside the closure of a verb.
InClosure(w) == wk[w].pc = "run"

\* The first line of every closure: auto conn = pool_.acquire(), on the worker.
AeAcquire(w) ==
    /\ InClosure(w)
    /\ opRes[Closure(w)] = "none"
    /\ AcquireEnter(w, 1)

\* The second line: the operation of the Resource, called through the guard; it
\* returns a value or throws (QueryFactory in exists(), std::bad_alloc).
AeOp(w, res) ==
    /\ InClosure(w)
    /\ pc[w] = "idle"
    /\ guards[w][1].live
    /\ opRes[Closure(w)] = "none"
    /\ res \in OpValues \cup {"threw"}
    /\ opRes' = [opRes EXCEPT ![Closure(w)] = res]
    /\ opConn' = [opConn EXCEPT ![Closure(w)] = guards[w][1].conn_]
    /\ UNCHANGED promise
    /\ UNCHANGED notAeVars

\* The closure's scope ends by return or by the exception: ~Connection runs.
AeUnwind(w) ==
    /\ InClosure(w)
    /\ opRes[Closure(w)] # "none"
    /\ Destroy(w, 1, IF opRes[Closure(w)] = "threw" THEN "throw" ELSE "return")

\* The closure has ended; the packaged_task stores its value or exception in the
\* shared state of the future, and task() returns to workerThread.
AeFinish(w) ==
    /\ InClosure(w)
    /\ opRes[Closure(w)] # "none"
    /\ pc[w] = "idle"
    /\ ~guards[w][1].live
    /\ WkRun(w)

\* Mutant of FutureReady: future.get() does not wait.
FutureReadyAlways(k) == TRUE

\* The shared state of task k's std::future holds a result: its packaged_task has run.
FutureReady(k) == done[k] >= 1

\* promise_type::return_value(T value_), AsyncExecutor.h:41-44: the member value_
\* afterwards. The parameter hides the member, so `value_ = std::move(value_)` assigns
\* the parameter to itself and the member keeps what it had.
ReturnValue(member, value) == member

\* Mutant of UnhandledException: the exception is dropped.
UnhandledExceptionDrops(p) == p

\* promise_type::unhandled_exception, AsyncExecutor.h:46-49, when future.get() throws
\* inside the coroutine: the promise afterwards.
UnhandledException(p) == [p EXCEPT !.exception_ = TRUE]

\* `co_return future.get()` (AsyncExecutor.cpp:95 and the like), on the caller's thread,
\* which enqueue() has returned to: get() blocks until the result is there and moves
\* it out of the shared state, then return_value stores it, or unhandled_exception
\* stores what get() rethrew; the coroutine suspends at final_suspend and the Task is
\* handed to the caller.
AeAwait(k) ==
    /\ enq[k] = "returned"
    /\ ~promise[k].done
    /\ FutureReady(k)
    /\ promise' = [promise EXCEPT ![k] =
                     IF opRes[k] = "threw"
                       THEN [UnhandledException(@) EXCEPT !.done = TRUE]
                       ELSE [@ EXCEPT !.value_ = ReturnValue(@, opRes[k]), !.done = TRUE]]
    /\ opRes' = [opRes EXCEPT ![k] = "none"]
    /\ UNCHANGED opConn
    /\ UNCHANGED notAeVars

\* Task<T>::ready() / await_ready(), AsyncExecutor.h:88-91, 120-123, on the Task the
\* verb returned: handle_ && handle_.done().
Ready(k) == promise[k].done

\* What reading a T yields: its value, or for an object that was never initialized
\* any value for a scalar T (bool, int64_t) and the empty value for a ResultSet.
ReadValue(v, scalar) ==
    IF v # "uninit" THEN {v} ELSE IF scalar THEN OpValues ELSE {"default"}

\* Task<T>::get() / await_resume(), AsyncExecutor.h:98-117, on the Task of verb k,
\* whose T is a scalar or a ResultSet: it rethrows exception_ ("threw") or returns
\* std::move(value_); the results it can have.
Get(k, scalar) ==
    IF promise[k].exception_ THEN {"threw"} ELSE ReadValue(promise[k].value_, scalar)

\* A ConnectionPool, an AsyncExecutor on it with up to NumWorkers worker threads, and
\* NumTasks threads that each call one verb. No Guard is held outside the dispatcher
\* and neither object is destroyed.
AeNext ==
    \/ CtorCheck
    \/ \E opened \in BOOLEAN : CtorIter(opened)
    \/ \E threadPoolSize \in 0..NumWorkers : AeCtor(threadPoolSize)
    \/ \E w \in Workers : WkLock(w)
    \/ \E w \in Workers : WkWait(w)
    \/ \E w \in Workers : WkSpurious(w)
    \/ \E w \in Workers : WkReacquire(w)
    \/ \E w \in Workers : WkCheck(w)
    \/ \E w \in Workers : AeAcquire(w)
    \/ \E w \in Workers : Wait(w)
    \/ \E w \in Workers : SpuriousWake(w)
    \/ \E w \in Workers : Reacquire(w)
    \/ \E w \in Workers : Check(w)
    \/ \E w \in Workers : Inc(w)
    \/ \E w \in Workers, res \in OpValues \cup {"threw"} : AeOp(w, res)
    \/ \E w \in Workers : AeUnwind(w)
    \/ \E w \in Workers : ReleasePush(w)
    \/ \E w \in Workers : AeFinish(w)
    \/ \E k \in Tasks : EnqLock(k)
    \/ \E k \in Tasks : EnqCheck(k)
    \/ \E k \in Tasks : EnqNotify(k)
    \/ \E k \in Tasks : AeAwait(k)

\* What the scheduler guarantees: a thread that can take the next step of the call
\* it is in, or can again and again because the mutex it needs is free again and
\* again, takes it, and an operation of a Resource terminates. The constructions,
\* new calls of verbs and spurious wake-ups are not forced.
AeFairness ==
    /\ \A w \in Workers :
          SF_vars(WkLock(w) \/ WkWait(w) \/ WkReacquire(w) \/ WkCheck(w) \/ AeAcquire(w)
                  \/ Wait(w) \/ Reacquire(w) \/ Check(w) \/ Inc(w)
                  \/ (\E res \in OpValues \cup {"threw"} : AeOp(w, res))
                  \/ AeUnwind(w) \/ ReleasePush(w) \/ AeFinish(w))
    /\ \A k \in Tasks : WF_vars(EnqCheck(k) \/ EnqNotify(k) \/ AeAwait(k))

AeSpec == Init /\ [][AeNext]_vars /\ AeFairness

\* ------------------------------------------------------------------ claim C22
\* The coroutine of verb k reaches final_suspend in this step with a value its
\* operation returned.
Delivers(k) == ~Ready(k) /\ Ready(k)' /\ opRes[k] \in OpValues

\* C22: for every verb, whatever the type T of its result, the value get() obtains
\* from the Task the verb returned equals the value the Resource operation returned
\* on the worker that ran it.
C22_GetReturnsOperationValue ==
    [][\A k \in Tasks : Delivers(k) =>
          \A scalar \in BOOLEAN : Get(k, scalar)' = {opRes[k]}]_vars

\* ------------------------------------------------------------------ claim C24
\* C24, states: while the Task of a verb is ready, its closure has run to its end on
\* a worker: it is not in the task queue and no worker is running it.
C24_State ==
    \A k \in Tasks :
        Ready(k) => /\ done[k] >= 1
                    /\ TimesQueued(k) = 0
                    /\ Holders(k) = {}

\* C24, steps: the operation of a verb is run by a worker thread that is inside the
\* verb's closure, never by a step of the thread that called the verb.
C24_Step ==
    \A k \in Tasks :
        (opRes[k] = "none" /\ opRes'[k] # "none") =>
            /\ enq'[k] = enq[k]
            /\ promise'[k] = promise[k]
            /\ \E w \in Workers : InClosure(w) /\ Closure(w) = k /\ wk'[w] = wk[w]

\* C24: a Task becomes ready only after its operation has run to completion on a
\* worker thread: ready() is never true while the operation is queued or executing,
\* and the operation is never executed on the caller's thread.
C24_ReadyOnlyAfterCompletion == []C24_State /\ [][C24_Step]_vars

\* C24 witness: the Task of one verb is ready while the operation of another verb
\* has returned on a worker whose closure has not ended yet.
C24_Witness ==
    \E k1 \in Tasks, k2 \in Tasks :
        /\ Ready(k1)
        /\ ~Ready(k2)
        /\ Holders(k2) # {}
        /\ opRes[k2] \in OpValues

\* ------------------------------------------------------------------ claim C23
\* The Resources worker w has: in a Guard, or in transit inside acquire() or
\* release().
HeldBy(w) ==
    {guards[w][s].conn_ : s \in {x \in Slots : guards[w][x].live}} \cup {conn[w]}

\* The Resources in the idle queue.
Idle == {pool_[i] : i \in 1..Len(pool_)}

\* C23, states, with the pool constructed: a worker outside a closure has no Guard
\* and is not inside the pool; a worker inside one has at most one Guard and is not
\* acquiring again once the operation has run; every Resource is in the idle queue
\* or with exactly one worker inside a closure, so with no closure running they are
\* all idle.
C23_State ==
    poolState = "ready" =>
        /\ \A w \in Workers :
              ~InClosure(w) => /\ \A s \in Slots : ~guards[w][s].live
                               /\ pc[w] = "idle"
                               /\ HeldBy(w) = {NULL}
        /\ \A w \in Workers :
              InClosure(w) => /\ \A s \in Slots : guards[w][s].live => s = 1
                              /\ Cardinality(HeldBy(w) \ {NULL}) <= 1
                              /\ opRes[Closure(w)] # "none" => call[w] = "none"
        /\ \A r \in 1..totalConnections_ :
              Cardinality({w \in Workers : r \in HeldBy(w)})
                  + Cardinality({i \in 1..Len(pool_) : pool_[i] = r}) = 1
        /\ (\A w \in Workers : ~InClosure(w)) =>
              /\ Len(pool_) = totalConnections_
              /\ outstandingConnections_ = 0

\* C23, steps: a Guard comes to life only on a worker inside a closure whose
\* operation has not run; the operation runs on a worker that holds a Guard with a
\* Resource that is not idle; when the closure ends its worker has released.
C23_Step ==
    /\ \A w \in Workers :
          (~guards[w][1].live /\ guards'[w][1].live) =>
              /\ InClosure(w)
              /\ opRes[Closure(w)] = "none"
    /\ \A k \in Tasks :
          (opRes[k] = "none" /\ opRes'[k] # "none") =>
              \E w \in Workers :
                  /\ InClosure(w) /\ Closure(w) = k
                  /\ NeedsRelease(guards[w][1])
                  /\ guards[w][1].conn_ \notin Idle
    /\ \A k \in Tasks :
          done'[k] # done[k] =>
              \A w \in Holders(k) : HeldBy(w) = {NULL} /\ pc[w] = "idle"

\* C23: every operation of the dispatcher acquires exactly one Guard inside the
\* closure a worker runs, runs the operation on it and releases the Guard before the
\* closure ends, whether the operation returns or throws: when the result is
\* ready the Resource is back in the pool, and the dispatcher holds no Guard between
\* operations.
C23_GuardOnlyInsideClosure == []C23_State /\ [][C23_Step]_vars

\* C23 witness: an operation has thrown on a worker, its closure has ended, and
\* with no closure running every Resource of a pool of more than one is idle.
C23_Witness ==
    /\ poolState = "ready"
    /\ totalConnections_ > 1
    /\ Len(pool_) = totalConnections_
    /\ \A w \in Workers : ~InClosure(w)
    /\ \E k \in Tasks : done[k] = 1 /\ opRes[k] = "threw"
    /\ \E k \in Tasks : done[k] = 1 /\ opRes[k] \in OpValues

\* ------------------------------------------------------------------ claim C28
\* The operation of verb k has been submitted and its Task is not ready.
Pending(k) == enq[k] \in {"notify", "returned"} /\ ~Ready(k)

\* C28, states: whatever the numbers of workers and Resources, the workers are never
\* all inside the wait of acquire() while an operation is pending.
C28_NotAllBlocked ==
    (\E k \in Tasks : Pending(k)) =>
        \E w \in Workers : wk[w].pc # "absent" /\ ~InAcquireWait(w)

\* C28: for every number of workers W >= 1 and pool size N >= 1, W > N included,
\* with no Guard held outside the dispatcher, every submitted operation eventually
\* completes and its Task becomes ready: a worker that finds the pool exhausted
\* blocks in acquire() and resumes when another worker releases, and the workers are
\* never all blocked in acquire() while operations are pending.
C28_EveryOperationCompletes ==
    /\ []C28_NotAllBlocked
    /\ \A k \in Tasks : Pending(k) ~> (done[k] = 1 /\ Ready(k))
    /\ \A w \in Workers : InAcquireWait(w) ~> NeedsRelease(guards[w][1])

\* C28 witness: there are more workers than Resources, every Resource is with a
\* worker, and another worker is blocked on the pool's condition variable inside
\* the closure of a pending operation.
C28_Witness ==
    /\ poolState = "ready"
    /\ WorkersSize > totalConnections_
    /\ pool_ = <<>>
    /\ \E w \in Workers :
          /\ InClosure(w)
          /\ Pending(Closure(w))
          /\ w \in cv_
    /\ \E w \in Workers : InClosure(w) /\ opRes[Closure(w)] # "none"

\* ------------------------------------------------------------------ claim C31
\* Analyzer::isSchemaCached (Analyzer.cpp:385-388): the load of the flag.
IsSchemaCached == isCacheInitialized

\* C31, steps: the flag becomes true only by the last statement of a
\* cacheAllSchemas() that holds both locks on an open handle and has stored every
\* table; the store of clearSchemaCache() makes it false; a cacheAllSchemas() that
\* finds the handle closed goes to its return and changes neither the cache nor the
\* flag; the miss path of getTableSchema() inserts its entry and leaves the flag.
C31_Step ==
    /\ (~IsSchemaCached /\ IsSchemaCached') =>
          \E t \in AnThreads :
              /\ an[t].kind = "cas" /\ an[t].pc = "c_flag" /\ an'[t].pc = "ret"
              /\ an[t].i = NumTables
              /\ db /\ dbMutex_ = t /\ schemaMutex_.w = t
    /\ \A t \in AnThreads :
          /\ (an[t].pc = "cl_flag" /\ an'[t].pc # "cl_flag") => ~IsSchemaCached'
          /\ (an[t].pc = "c_enum" /\ an'[t].pc # "c_enum" /\ ~db) =>
                /\ an'[t].pc = "ret"
                /\ schemaCache' = schemaCache
                /\ IsSchemaCached' = IsSchemaCached
          /\ (an[t].pc = "ret" /\ an'[t].pc # "ret") =>
                /\ schemaCache' = schemaCache
                /\ IsSchemaCached' = IsSchemaCached
          /\ (an[t].pc = "g_fetch" /\ an'[t].pc # "g_fetch" /\ db) =>
                /\ schemaCache'[an[t].tab] # Absent
                /\ IsSchemaCached' = IsSchemaCached

\* C31: isSchemaCached() is true only if a cacheAllSchemas() ran to completion on an
\* open handle since the last clearSchemaCache(): on a closed handle
\* cacheAllSchemas() changes neither the cache nor the flag, and the miss path of
\* getTableSchema() inserts an entry without setting the flag.
C31_FlagOnlyByCompleteCaching == [][C31_Step]_vars

\* C31 witness: a cacheAllSchemas() has just returned on a closed handle; the flag
\* is false although the miss path of a getTableSchema() has cached an entry.
C31_Witness ==
    /\ anEvent.type = "done"
    /\ anEvent.kind = "cas"
    /\ ~db
    /\ ~IsSchemaCached
    /\ \E tab \in Tables : schemaCache[tab] # Absent

\* ------------------------------------------------------------------ claim C32
\* Thread t holds the cache lock, shared or exclusive.
HoldsSchema(t) == schemaMutex_.w = t \/ t \in schemaMutex_.r

\* Thread t is at a statement that requests the cache lock, or the operation lock.
WantsSchema(t) == an[t].pc \in {"g_sl", "g_xl"}
WantsDb(t) == an[t].pc \in {"g_db", "c_db", "reopen"}

\* C32, states: a thread that requests the cache lock holds neither lock, so none
\* requests it while holding the operation lock and getTableSchema has released
\* its shared lock before it requests the exclusive one; a thread that holds the
\* operation lock requests nothing; a thread in no call holds nothing; and while
\* any thread is inside a call, some thread inside a call can take its next step.
C32_State ==
    /\ \A t \in AnThreads :
          /\ WantsSchema(t) => (dbMutex_ # t /\ ~HoldsSchema(t))
          /\ dbMutex_ = t => (~WantsSchema(t) /\ ~WantsDb(t))
          /\ an[t].pc = "idle" => (dbMutex_ # t /\ ~HoldsSchema(t))
    /\ (\E t \in AnThreads : an[t].pc # "idle") =>
          \E t \in AnThreads : an[t].pc # "idle" /\ ENABLED InCall(t)

\* C32, steps: a thread takes the cache lock only while it does not hold the
\* operation lock, so a thread that holds both took the cache lock first.
C32_Step ==
    \A t \in AnThreads :
        (~HoldsSchema(t) /\ HoldsSchema(t)') => (dbMutex_ # t /\ dbMutex_' # t)

\* C32: no interleaving of operations on one Resource deadlocks: the cache lock is
\* always taken before the operation lock and never requested while holding it,
\* getTableSchema releases its shared cache lock before requesting the exclusive
\* one, and so every call of a finite set of concurrent calls returns: whenever a
\* thread is inside a call, a state follows in which every thread has returned.
C32_NoDeadlock ==
    /\ []C32_State
    /\ [][C32_Step]_vars
    /\ (\E t \in AnThreads : an[t].pc # "idle") ~> (\A t \in AnThreads : an[t].pc = "idle")

\* C32 witness: every call of the set has begun; one thread holds both locks inside
\* cacheAllSchemas while a getTableSchema, past its shared lock, requests the
\* exclusive lock and the third thread is inside a statement's call.
C32_Witness ==
    /\ callsLeft = Limited(0)
    /\ \E t1 \in Callers, t2 \in Callers :
          /\ an[t1].kind = "cas" /\ dbMutex_ = t1 /\ schemaMutex_.w = t1
          /\ an[t2].kind = "gts" /\ an[t2].pc = "g_xl"
    /\ \E t \in AnThreads : an[t].pc = "reopen"

\* ------------------------------------------------------------------ Analyzer::Impl: one thread
\* A default-constructed Impl (Analyzer.cpp:14-26).
NewImpl == [db |-> FALSE, walModeEnabled |-> FALSE, lastError |-> "", journalWal |-> FALSE]

\* Analyzer::close (Analyzer.cpp:109-118): the handle is closed and db reset; nothing
\* else is written.
Close(h) == [h EXCEPT !.db = FALSE, !.journalWal = FALSE]

\* Analyzer::open (Analyzer.cpp:73-107) with sqlite3_open succeeding (ok) or not and,
\* on the new handle, the pragma journal_mode=WAL succeeding (walOk) or not.
Open(h, ok, walOk) ==
    LET c == Close(h) IN
    IF ~ok THEN [c EXCEPT !.db = DbAfterOpen(ok),
                          !.lastError = IF OpenResult(ok).wrote THEN "open" ELSE @]
    ELSE IF walOk THEN [c EXCEPT !.db = DbAfterOpen(ok), !.journalWal = TRUE,
                                 !.walModeEnabled = TRUE]
    ELSE [c EXCEPT !.db = DbAfterOpen(ok)]

\* Analyzer::enableWALMode (Analyzer.cpp:126-151): the Impl afterwards, and the value
\* returned.
EnableWALMode(h, walOk) ==
    IF ~h.db THEN h
    ELSE IF ~walOk THEN [h EXCEPT !.lastError = "wal"]
    ELSE [h EXCEPT !.journalWal = TRUE, !.walModeEnabled = TRUE]
EnableWALModeResult(h, walOk) == h.db /\ walOk

\* Analyzer::isWALMode (Analyzer.cpp:153-156).
IsWALMode(h) == h.walModeEnabled

\* Analyzer::getLastError (Analyzer.cpp:323-327).
GetLastError(h) == h.lastError

\* Analyzer::execute and Analyzer::query: the Impl afterwards; lastError is assigned
\* on the paths ExecuteResult and QueryResult say, and on no other.
Execute(h, execOk) ==
    [h EXCEPT !.lastError = IF ExecuteResult(h.db, execOk).wrote THEN "exec" ELSE @]
Query(h, prepared, rows) ==
    [h EXCEPT !.lastError = IF QueryResult(h.db, prepared, rows).wrote THEN "prepare" ELSE @]

\* One iteration of the loop of ConnectionPool::ConnectionPool (lines 68-89) for a
\* pool constructed with enableWAL: the Analyzer it makes, which it pushes into the
\* pool when isOpen() (otherwise the constructor throws). walOk1 is the outcome of
\* the pragma inside open(), walOk2 of the one inside enableWALMode().
Pooled(enableWAL, opened, walOk1, walOk2) ==
    LET made == Open(NewImpl, opened, walOk1) IN
    IF ~made.db THEN made
    ELSE IF enableWAL THEN EnableWALMode(made, walOk2)
    ELSE made

ImplOpen(ok, walOk) ==
    /\ impl' = Open(impl, ok, walOk)
    /\ implEvent' = [type |-> "open", ret |-> OpenResult(ok).ret]
    /\ UNCHANGED notImplVars

ImplClose ==
    /\ impl' = Close(impl)
    /\ implEvent' = [type |-> "close"]
    /\ UNCHANGED notImplVars

ImplEnableWALMode(walOk) ==
    /\ impl' = EnableWALMode(impl, walOk)
    /\ implEvent' = [type |-> "enableWALMode", ret |-> EnableWALModeResult(impl, walOk)]
    /\ UNCHANGED notImplVars

\* execute(sql); the statement fails or succeeds.
ImplExecute(execOk) ==
    /\ impl' = Execute(impl, execOk)
    /\ implEvent' = [type |-> "execute", ret |-> ExecuteResult(impl.db, execOk).ret]
    /\ UNCHANGED notImplVars

\* query(sql); the statement cannot be prepared, or it runs and yields `rows` rows.
ImplQuery(prepared, rows) ==
    /\ impl' = Query(impl, prepared, rows)
    /\ implEvent' = [type |-> "query", ok |-> (impl.db /\ prepared),
                     ret |-> QueryResult(impl.db, prepared, rows).ret]
    /\ UNCHANGED notImplVars

\* The thread looks at a Resource that a pool constructed with enableWAL made.
ImplPooled(enableWAL, opened, walOk1, walOk2) ==
    /\ impl' = Pooled(enableWAL, opened, walOk1, walOk2)
    /\ implEvent' = [type |-> "pooled", enableWAL |-> enableWAL,
                     pragmaOk |-> IF enableWAL THEN walOk1 \/ walOk2 ELSE walOk1]
    /\ UNCHANGED notImplVars

\* One thread calls open, close, enableWALMode, execute and query on one Analyzer in
\* any order, with every outcome of the native calls, or takes a fresh Resource of
\* a pool.
ImplNext ==
    \/ \E ok \in BOOLEAN, walOk \in BOOLEAN : ImplOpen(ok, walOk)
    \/ ImplClose
    \/ \E walOk \in BOOLEAN : ImplEnableWALMode(walOk)
    \/ \E execOk \in BOOLEAN : ImplExecute(execOk)
    \/ \E prepared \in BOOLEAN, rows \in {0, 1} : ImplQuery(prepared, rows)
    \/ \E enableWAL \in BOOLEAN, opened \in BOOLEAN, walOk1 \in BOOLEAN, walOk2 \in BOOLEAN :
          ImplPooled(enableWAL, opened, walOk1, walOk2)

ImplSpec == AnInitial /\ [][ImplNext]_vars

\* ------------------------------------------------------------------ claims C33, C34, C39
\* C33: after any sequence of open, close, enableWALMode and failed or successful
\* re-open calls, isWALMode() implies that the Analyzer holds an open handle on which
\* write-ahead mode was enabled.
C33_WalModeMeansWalHandle == IsWALMode(impl) => (impl.db /\ impl.journalWal)

\* C34: a Resource of a pool constructed with enableWAL == false does not report
\* isWALMode(), and one of a pool constructed with enableWAL == true on which the
\* pragma succeeded does.
C34_EnableWalDecides ==
    (implEvent.type = "pooled" /\ impl.db) =>
        /\ ~implEvent.enableWAL => ~IsWALMode(impl)
        /\ (implEvent.enableWAL /\ implEvent.pragmaOk) => IsWALMode(impl)

\* C39: when the most recent query() succeeded with zero rows, getLastError()
\* reports no error, whatever statements ran before it.
C39_NoStaleError ==
    (implEvent.type = "query" /\ implEvent.ok /\ implEvent.ret = 0) => GetLastError(impl) = ""

\* ------------------------------------------------------------------ claim C35
\* The step is the destructor's load of outstandingConnections_ (lines 98-99).
DtorLoads == dtor = "notified" /\ dtor' = "checked"

\* C35: when ~ConnectionPool reads an outstanding count of 0, every one of the N
\* Resources is in the idle queue and no release() is in progress on any thread;
\* and when a Guard with a Resource is live at that moment, it reads more than 0.
C35_ZeroMeansQuiescent ==
    [][DtorLoads =>
          /\ dtorSaw' = 0 => /\ Len(pool_) = totalConnections_
                             /\ \A t \in Threads : pc[t] # "rel"
          /\ (\E t \in Threads, s \in Slots : NeedsRelease(guards[t][s])) => dtorSaw' > 0]_vars

\* ------------------------------------------------------------------ claim C36
\* C36, states: until the ThreadPool is stopped no worker has left workerThread.
C36_State ==
    tpDtor = "none" => \A w \in Workers : wk[w].pc # "exited"

\* C36, steps: the number of workers does not change once the ThreadPool is
\* constructed; the worker whose closure ends with an exception goes back to the
\* head of its loop; the coroutine that finds the exception in the future stores
\* it, and get() on its Task rethrows it, while get() rethrows for no task whose
\* closure returned.
C36_Step ==
    /\ tpDtor = "none" => WorkersSize' = WorkersSize
    /\ \A w \in Workers :
          (InClosure(w) /\ opRes[Closure(w)] = "threw" /\ done'[Closure(w)] # done[Closure(w)]) =>
              wk'[w] = [pc |-> "top", task |-> 0]
    /\ \A k \in Tasks :
          (~Ready(k) /\ Ready(k)') =>
              \A scalar \in BOOLEAN :
                  (opRes[k] = "threw") <=> (Get(k, scalar)' = {"threw"})

\* C36: a task whose closure throws does not terminate the worker that runs it:
\* the exception is captured in the task's future and rethrown to the caller from
\* get(), the number of live workers stays what was configured until stop, and
\* later tasks are still executed.
C36_ThrowDoesNotKillWorker ==
    /\ []C36_State
    /\ [][C36_Step]_vars
    /\ \A k \in Tasks :
          ((\E j \in Tasks : promise[j].exception_) /\ Pending(k)) ~> (done[k] = 1 /\ Ready(k))

\* C36 witness: the exception of one verb's closure has reached its Task, and the
\* only worker there is, which ran that closure, is running the closure of a later
\* verb.
C36_Witness ==
    /\ WorkersSize = 1
    /\ \E j \in Tasks, k \in Tasks :
          /\ Ready(j) /\ promise[j].exception_
          /\ Holders(k) # {}
          /\ opRes[k] \in OpValues

\* ------------------------------------------------------------------ AsyncExecutor: one caller
\* The thread that calls the verbs; the workers are the threads 1..NumWorkers.
Caller == NumWorkers + 1

\* The caller is inside a verb: the verb's coroutine runs on the caller's thread and
\* blocks it in future.get() (AsyncExecutor.cpp:95) until the Task is handed back.
InVerb == \E k \in Tasks : enq[k] # "new" /\ ~Ready(k)

\* The caller calls verb k: it is in no other call, and the verbs before k have
\* handed back their Tasks.
CallVerb(k) ==
    /\ pc[Caller] = "idle"
    /\ \A j \in Tasks : j < k => Ready(j)
    /\ EnqLock(k)

\* The caller, between verbs, acquires Guards of the pool for itself and lets them
\* go out of scope.
CallerAcquire(s) == ~InVerb /\ AcquireEnter(Caller, s)
CallerRelease(s) == ~InVerb /\ Destroy(Caller, s, "normal")

\* The executor and its workers, and one thread that calls the verbs one after
\* another and holds no Guard of its own.
SerialNext ==
    \/ CtorCheck
    \/ \E opened \in BOOLEAN : CtorIter(opened)
    \/ \E threadPoolSize \in 0..NumWorkers : AeCtor(threadPoolSize)
    \/ \E w \in Workers : WkLock(w)
    \/ \E w \in Workers : WkWait(w)
    \/ \E w \in Workers : WkSpurious(w)
    \/ \E w \in Workers : WkReacquire(w)
    \/ \E w \in Workers : WkCheck(w)
    \/ \E w \in Workers : AeAcquire(w)
    \/ \E w \in Workers : Check(w)
    \/ \E w \in Workers : Inc(w)
    \/ \E w \in Workers, res \in OpValues \cup {"threw"} : AeOp(w, res)
    \/ \E w \in Workers : AeUnwind(w)
    \/ \E w \in Workers : ReleasePush(w)
    \/ \E w \in Workers : AeFinish(w)
    \/ \E k \in Tasks : CallVerb(k)
    \/ \E k \in Tasks : EnqCheck(k)
    \/ \E k \in Tasks : EnqNotify(k)
    \/ \E k \in Tasks : AeAwait(k)

SerialSpec == Init /\ [][SerialNext]_vars

\* The same, with a caller that may hold up to NumSlots Guards of the pool while it
\* calls a verb, and workers that can therefore find the pool exhausted.
HeldNext ==
    \/ SerialNext
    \/ \E s \in Slots : CallerAcquire(s)
    \/ \E s \in Slots : CallerRelease(s)
    \/ \E t \in Workers \cup {Caller} : Wait(t)
    \/ \E t \in Workers \cup {Caller} : SpuriousWake(t)
    \/ \E t \in Workers \cup {Caller} : Reacquire(t)
    \/ Check(Caller)
    \/ Inc(Caller)
    \/ ReleasePush(Caller)

HeldSpec == Init /\ [][HeldNext]_vars /\ AeFairness

\* ------------------------------------------------------------------ claims C37, C38
\* C37: the operation of a verb called after the verb before it has completed, with
\* nothing in between, runs on the Resource the earlier one ran on, for every pool
\* size: a commit() reaches the Resource of its beginTransaction().
C37_NextVerbSameResource ==
    \A j \in Tasks, k \in Tasks :
        (k = j + 1 /\ opConn[j] # NULL /\ opConn[k] # NULL) => opConn[k] = opConn[j]

\* C38: a verb called by a thread that holds Guards of the same pool, any number up
\* to the pool size, eventually hands back its Task with the operation run.
C38_VerbReturnsToGuardHolder ==
    \A k \in Tasks : (enq[k] = "returned" /\ ~Ready(k)) ~> Ready(k)

====
